---- MODULE Spec2Model ----
(***************************************************************************)
(* A model of the trade-compliance service (wahajaslm/tarco):              *)
(*   - the HS classification pipeline  (src/rag/pipeline.py,               *)
(*     src/rag/reranker.py, src/rag/calibrator.py),                        *)
(*   - the chat endpoints and their in-memory clarification sessions       *)
(*     (src/api/routers/chat.py),                                          *)
(*   - the deterministic endpoint, builder and validation gate             *)
(*     (src/api/routers/deterministic.py,                                  *)
(*      src/services/deterministic_builder.py, src/api/schemas/*.py),      *)
(*   - the vector index writer (src/rag/retrieval.py).                     *)
(*                                                                         *)
(* Conventions.  Python str values on which the code does character work   *)
(* (lower, split, strip, len, slicing, ord) are sequences of one-character *)
(* strings.  Scores, confidences and percentages are integers counting     *)
(* hundredths (0.62 is 62).  None, where a str is expected, is the value    *)
(* None below; an Optional[int] is <<>> for None and <<n>> for n.  A call  *)
(* that may raise yields [raised, value].                                  *)
(***************************************************************************)
EXTENDS Integers, Sequences, FiniteSets, TLC

VARIABLES
    hashOf,                 \* this process's str hash (PYTHONHASHSEED), chat.py:72, pipeline.py:155
    clarification_sessions, \* chat.py:29, insertion-ordered dict as a sequence of <<key, value>>
    served,                 \* number of HTTP requests handled so far
    reply,                  \* the response of the last request, with what the handler did
    abstained_log,          \* history: what every abstaining resolve request stored and returned
    answer_log,             \* history: one record per answer request, in order
    cls,                    \* the last direct call of a component and its result
    points,                 \* the Qdrant collection: point id -> payload
    embedding_model_bound,  \* whether the module-level name embedding_model is bound (retrieval.py:80)
    added                   \* number of documents handed to add_documents calls that returned

vars == <<hashOf, clarification_sessions, served, reply, abstained_log, answer_log,
          cls, points, embedding_model_bound, added>>

None == <<"None">>

Raised == [raised |-> TRUE, value |-> <<>>]
Returned(v) == [raised |-> FALSE, value |-> v]

----------------------------------------------------------------------------
(* Python str helpers over sequences of characters.                        *)

UpperChars == <<"A","B","C","D","E","F","G","H","I","J","K","L","M",
                "N","O","P","Q","R","S","T","U","V","W","X","Y","Z">>
LowerChars == <<"a","b","c","d","e","f","g","h","i","j","k","l","m",
                "n","o","p","q","r","s","t","u","v","w","x","y","z">>
DigitChars == <<"0","1","2","3","4","5","6","7","8","9">>

IndexIn(c, alphabet) ==
    IF \E i \in DOMAIN alphabet : alphabet[i] = c
    THEN CHOOSE i \in DOMAIN alphabet : alphabet[i] = c
    ELSE 0

\* str.lower() on one character
LowerChar(c) ==
    IF IndexIn(c, UpperChars) > 0 THEN LowerChars[IndexIn(c, UpperChars)] ELSE c

\* str.lower()
Lower(s) == [i \in DOMAIN s |-> LowerChar(s[i])]

IsSpace(c) == c = " "
IsDigit(c) == IndexIn(c, DigitChars) > 0

\* s[a:b] with 1-based inclusive positions a..b
Slice(s, a, b) == IF a > b THEN <<>> ELSE SubSeq(s, a, b)

\* whether sub occurs in s at position i
MatchAt(s, sub, i) ==
    /\ i >= 1
    /\ i + Len(sub) - 1 <= Len(s)
    /\ \A k \in 1..Len(sub) : s[i + k - 1] = sub[k]

\* str.find: first position >= from where sub occurs, 0 when there is none
FindFrom(s, sub, from) ==
    LET hits == {i \in from..Len(s) : MatchAt(s, sub, i)}
    IN IF hits = {} THEN 0 ELSE CHOOSE i \in hits : \A j \in hits : i <= j

\* `sub in s`
Contains(s, sub) == FindFrom(s, sub, 1) > 0

\* str.split(sep): the list of pieces between non-overlapping occurrences of sep
RECURSIVE SplitFrom(_, _, _)
SplitFrom(s, sep, from) ==
    LET i == FindFrom(s, sep, from)
    IN IF i = 0
       THEN <<Slice(s, from, Len(s))>>
       ELSE <<Slice(s, from, i - 1)>> \o SplitFrom(s, sep, i + Len(sep))

Split(s, sep) == SplitFrom(s, sep, 1)

\* str.strip()
Strip(s) ==
    LET keep == {i \in DOMAIN s : ~IsSpace(s[i])}
    IN IF keep = {} THEN <<>>
       ELSE LET lo == CHOOSE i \in keep : \A j \in keep : i <= j
                hi == CHOOSE i \in keep : \A j \in keep : i >= j
            IN SubSeq(s, lo, hi)

\* int() of a string of digits
RECURSIVE IntOf(_)
IntOf(s) ==
    IF s = <<>> THEN 0
    ELSE 10 * IntOf(SubSeq(s, 1, Len(s) - 1)) + (IndexIn(s[Len(s)], DigitChars) - 1)

\* re.search(r'(\d+)\s+', s): the leftmost run of digits that is followed by
\* white space; the group is the run from the match start up to that space.
QuantityOf(s) ==
    LET starts == {i \in DOMAIN s :
                      /\ IsDigit(s[i])
                      /\ \E j \in i..Len(s) :
                            /\ \A k \in i..j : IsDigit(s[k])
                            /\ j + 1 <= Len(s)
                            /\ IsSpace(s[j + 1])}
    IN IF starts = {} THEN <<>>
       ELSE LET i == CHOOSE a \in starts : \A b \in starts : a <= b
                j == CHOOSE e \in i..Len(s) :
                        /\ \A k \in i..e : IsDigit(s[k])
                        /\ e + 1 <= Len(s)
                        /\ IsSpace(s[e + 1])
            IN <<IntOf(SubSeq(s, i, j))>>

kw_from == <<"f","r","o","m">>
kw_to == <<"t","o">>
kw_import == <<"i","m","p","o","r","t">>

\* chat.py _extract_query_parameters
ExtractQueryParameters(message) ==
    LET message_lower == Lower(message)
        parts == Split(message_lower, kw_from)
        to_parts == IF Len(parts) > 1 THEN Split(parts[2], kw_to) ELSE <<>>
        route == /\ Contains(message_lower, kw_from)
                 /\ Contains(message_lower, kw_to)
                 /\ Len(parts) > 1
                 /\ Len(to_parts) > 1
        import_part == IF Contains(message_lower, kw_import)
                       THEN Split(message_lower, kw_import)[2]
                       ELSE <<>>
        has_product == /\ Contains(message_lower, kw_import)
                       /\ Contains(import_part, kw_from)
    IN [origin |-> IF route THEN Strip(to_parts[1]) ELSE <<>>,
        destination |-> IF route THEN Strip(to_parts[2]) ELSE <<>>,
        product_description |->
            IF has_product THEN Strip(Split(import_part, kw_from)[1]) ELSE <<>>,
        quantity |-> QuantityOf(message)]

----------------------------------------------------------------------------
(* Configuration, src/core/config.py.                                      *)

top_k_rerank == 5
confidence_threshold == 62
margin_threshold == 7

\* chat.py:72 and pipeline.py:155: hash(...) % 10000
HashModulus == 10000

\* ClassificationMethod.RETRIEVAL_RERANK_CALIBRATE, response.py:34
RETRIEVAL_RERANK_CALIBRATE == "retrieval_rerank_calibrate"

\* Python truthiness of an Optional[str]
Truthy(x) == x # None /\ x # <<>>

----------------------------------------------------------------------------
(* Reranker, src/rag/reranker.py.  A candidate is a search result          *)
(* [id, goods_code]: id is the stored point's id, goods_code the           *)
(* payload's 'goods_code' (None when the payload has none).  The retrieval *)
(* score and the description ride along unchanged and are left out.        *)

\* the mutation of SortDesc that puts the later of two equal scores first
SortDescUnstable(docs) ==
    LET n == Len(docs)
        rank(i) == 1 + Cardinality({j \in 1..n :
                        \/ docs[j].rerank_score > docs[i].rerank_score
                        \/ /\ docs[j].rerank_score = docs[i].rerank_score
                           /\ j > i})
    IN [r \in 1..n |-> docs[CHOOSE i \in 1..n : rank(i) = r]]

\* sorted(documents, key=rerank_score, reverse=True): Python's sort is stable,
\* and with reverse=True equal keys keep their original order.
SortDesc(docs) ==
    LET n == Len(docs)
        rank(i) == 1 + Cardinality({j \in 1..n :
                        \/ docs[j].rerank_score > docs[i].rerank_score
                        \/ /\ docs[j].rerank_score = docs[i].rerank_score
                           /\ j < i})
    IN [r \in 1..n |-> docs[CHOOSE i \in 1..n : rank(i) = r]]

Take(s, k) == IF Len(s) <= k THEN s ELSE SubSeq(s, 1, k)

\* Reranker.rerank_with_metadata: predict is what self.model.predict does
\* with the pairs: it raises, or returns a score per document.
RerankWithMetadata(documents, predict) ==
    IF documents = <<>> THEN Returned(<<>>)
    ELSE IF predict.raised THEN Raised
    ELSE Returned(Take(SortDesc([i \in DOMAIN documents |->
                                   [id |-> documents[i].id,
                                    goods_code |-> documents[i].goods_code,
                                    rerank_score |-> predict.value[i]]]),
                       top_k_rerank))

RECURSIVE SumSeq(_)
SumSeq(s) == IF s = <<>> THEN 0 ELSE s[1] + SumSeq(Tail(s))

\* Reranker.get_confidence_features: [top1, top2, gap, mean, std].  The mean
\* Each entry is an exact fraction num/den; the last one is the population
\* variance (n*sum(x^2) - sum(x)^2) / n^2, of which np.std is the square root.
GetConfidenceFeatures(top_results, fault) ==
    IF top_results = <<>> THEN Returned(<<>>)
    ELSE IF fault THEN Raised
    ELSE LET n == Len(top_results)
             scores == [i \in 1..n |-> top_results[i].rerank_score]
             top1 == scores[1]
             top2 == IF n > 1 THEN scores[2] ELSE 0
             gap == IF n > 1 THEN scores[1] - scores[2] ELSE 0
             total == SumSeq(scores)
             squares == SumSeq([i \in 1..n |-> scores[i] * scores[i]])
         IN Returned(<<[num |-> top1, den |-> 1],
                       [num |-> top2, den |-> 1],
                       [num |-> gap, den |-> 1],
                       [num |-> total, den |-> n],
                       [num |-> n * squares - total * total, den |-> n * n]>>)

----------------------------------------------------------------------------
(* Confidence calibrator, src/rag/calibrator.py.  cal is the calibrator's  *)
(* condition for this call: cal.state is "untrained" (is_trained is        *)
(* False), "error" (the scaler or the model raises) or "trained", and then *)
(* cal.p is the probability the model predicts for the features.           *)

DefaultConfidence == 50

\* PredictConfidence with the fallback of a failed prediction set to full
\* confidence instead of the conservative default
PredictConfidenceOptimistic(features, cal) ==
    IF cal.state = "untrained" THEN DefaultConfidence
    ELSE IF cal.state = "error" THEN 100
    ELSE cal.p

PredictConfidence(features, cal) ==
    IF cal.state = "untrained" THEN DefaultConfidence
    ELSE IF cal.state = "error" THEN DefaultConfidence
    ELSE cal.p

\* ShouldAbstain with the confidence comparison made non-strict
ShouldAbstainNonStrict(confidence, margin) ==
    IF confidence <= confidence_threshold THEN TRUE
    ELSE IF margin < margin_threshold THEN TRUE
    ELSE FALSE

ShouldAbstain(confidence, margin) ==
    IF confidence < confidence_threshold THEN TRUE
    ELSE IF margin < margin_threshold THEN TRUE
    ELSE FALSE

GetConfidenceAndAbstain(features, margin, cal) ==
    LET confidence == PredictConfidence(features, cal)
    IN <<confidence, ShouldAbstain(confidence, margin)>>

----------------------------------------------------------------------------
(* Classification pipeline, src/rag/pipeline.py.                           *)

CreateAbstainResult(reason, confidence, margin) ==
    [hs_code |-> None,
     confidence |-> confidence,
     margin |-> margin,
     method |-> RETRIEVAL_RERANK_CALIBRATE,
     abstained |-> TRUE,
     abstention_reason |-> reason,
     top_candidates |-> <<>>]

\* ConfidentResult without the check that the top candidate carries a code
ConfidentResultUnchecked(reranked, confidence, margin) ==
    [hs_code |-> reranked[1].goods_code,
     confidence |-> confidence,
     margin |-> margin,
     method |-> RETRIEVAL_RERANK_CALIBRATE,
     abstained |-> FALSE,
     top_candidates |-> Take(reranked, 3)]

\* What the confident branch of classify returns (pipeline.py:84-101), given
\* the reranked candidates, the confidence and the margin.
ConfidentResult(reranked, confidence, margin) ==
    LET hs_code == reranked[1].goods_code
    IN IF ~Truthy(hs_code)
       THEN CreateAbstainResult("no_hs_code_in_result", 0, 0)
       ELSE [hs_code |-> hs_code,
             confidence |-> confidence,
             margin |-> margin,
             method |-> RETRIEVAL_RERANK_CALIBRATE,
             abstained |-> FALSE,
             top_candidates |-> Take(reranked, 3)]

\* the mutation of MarginOf that takes the score of a lone candidate for its
\* margin
MarginOfLoneScore(reranked) ==
    IF Len(reranked) > 1
    THEN reranked[1].rerank_score - reranked[2].rerank_score
    ELSE reranked[1].rerank_score

\* The margin classify computes (pipeline.py:69-71)
MarginOf(reranked) ==
    IF Len(reranked) > 1
    THEN reranked[1].rerank_score - reranked[2].rerank_score
    ELSE 0

\* HSClassificationPipeline.classify under the stage outcomes env:
\*   env.search      what self.retriever.search does: it raises (also when
\*                   the retriever is None) or returns the candidates
\*   env.predict     what the cross-encoder does: it raises or returns a
\*                   score per candidate
\*   env.feat_fault  whether get_confidence_features raises
\*   env.cal         the calibrator's condition (see above)
\* Every exception is caught by the handler at pipeline.py:103-105.  The
\* result's 'metadata' entry (the top candidate's payload) is left out.
Classify(env) ==
    IF env.search.raised THEN CreateAbstainResult("classification_error", 0, 0)
    ELSE IF env.search.value = <<>>
    THEN CreateAbstainResult("no_candidates_retrieved", 0, 0)
    ELSE LET rr == RerankWithMetadata(env.search.value, env.predict)
         IN IF rr.raised THEN CreateAbstainResult("classification_error", 0, 0)
            ELSE IF rr.value = <<>>
            THEN CreateAbstainResult("no_candidates_after_reranking", 0, 0)
            ELSE LET ft == GetConfidenceFeatures(rr.value, env.feat_fault)
                 IN IF ft.raised
                    THEN CreateAbstainResult("classification_error", 0, 0)
                    ELSE IF ft.value = <<>> \/ Len(ft.value) < 5
                    THEN CreateAbstainResult("insufficient_confidence_features", 0, 0)
                    ELSE LET margin == MarginOf(rr.value)
                             ca == GetConfidenceAndAbstain(ft.value, margin, env.cal)
                         IN IF ca[2]
                            THEN CreateAbstainResult("low_confidence", ca[1], margin)
                            ELSE ConfidentResult(rr.value, ca[1], margin)

\* ord() of the characters the model uses (ASCII)
Ord(c) ==
    IF IndexIn(c, LowerChars) > 0 THEN 96 + IndexIn(c, LowerChars)
    ELSE IF IndexIn(c, UpperChars) > 0 THEN 64 + IndexIn(c, UpperChars)
    ELSE IF IndexIn(c, DigitChars) > 0 THEN 47 + IndexIn(c, DigitChars)
    ELSE 32

\* hash(text) % 10000 under the process's hash h
HashMod(h, text) == h[text] % HashModulus

\* the value of an absent (None) clarifying question
NoQuestion == [present |-> FALSE]

\* the mutation of GetClarifyingQuestion that letters the options by their
\* place in the question, not by the candidate's place in the list
GetClarifyingQuestionRelettered(h, query, top_candidates) ==
    IF Len(top_candidates) < 2 THEN NoQuestion
    ELSE LET top3 == Take(top_candidates, 3)
             kept == {i \in DOMAIN top3 : Truthy(top3[i].goods_code)}
             nth(k) == CHOOSE i \in kept : Cardinality({j \in kept : j < i}) = k - 1
             candidates_info ==
                 [k \in 1..Cardinality(kept) |->
                     [id |-> <<LowerChars[k]>>,
                      hs_code |-> top3[nth(k)].goods_code,
                      score |-> top3[nth(k)].rerank_score]]
         IN IF Len(candidates_info) < 2 THEN NoQuestion
            ELSE [present |-> TRUE,
                  id |-> <<"cq", HashMod(h, query)>>,
                  options |-> candidates_info]

\* HSClassificationPipeline.get_clarifying_question; the fixed question text
\* and the options' descriptions are left out.
GetClarifyingQuestion(h, query, top_candidates) ==
    IF Len(top_candidates) < 2 THEN NoQuestion
    ELSE LET top3 == Take(top_candidates, 3)
             kept == {i \in DOMAIN top3 : Truthy(top3[i].goods_code)}
             nth(k) == CHOOSE i \in kept : Cardinality({j \in kept : j < i}) = k - 1
             candidates_info ==
                 [k \in 1..Cardinality(kept) |->
                     [id |-> <<LowerChars[nth(k)]>>,
                      hs_code |-> top3[nth(k)].goods_code,
                      score |-> top3[nth(k)].rerank_score]]
         IN IF Len(candidates_info) < 2 THEN NoQuestion
            ELSE [present |-> TRUE,
                  id |-> <<"cq", HashMod(h, query)>>,
                  options |-> candidates_info]

\* the mutation of ClassifyWithClarification that takes a letter beyond the
\* last option for the last option
ClassifyWithClarificationClamped(query, selected_option, top_candidates) ==
    IF Len(selected_option) # 1
    THEN CreateAbstainResult("clarification_error", 0, 0)
    ELSE LET option_index == Ord(LowerChar(selected_option[1])) - Ord("a")
             clamped == IF option_index >= Len(top_candidates)
                        THEN Len(top_candidates) - 1
                        ELSE option_index
         IN IF clamped < 0
            THEN CreateAbstainResult("invalid_option_selected", 0, 0)
            ELSE LET hs_code == top_candidates[clamped + 1].goods_code
                 IN IF ~Truthy(hs_code)
                    THEN CreateAbstainResult("no_hs_code_in_selected", 0, 0)
                    ELSE [hs_code |-> hs_code,
                          confidence |-> 100,
                          margin |-> 0,
                          method |-> RETRIEVAL_RERANK_CALIBRATE,
                          abstained |-> FALSE,
                          clarification_used |-> TRUE,
                          selected_option |-> selected_option]

\* HSClassificationPipeline.classify_with_clarification
ClassifyWithClarification(query, selected_option, top_candidates) ==
    IF Len(selected_option) # 1
    THEN CreateAbstainResult("clarification_error", 0, 0)   \* ord() raises TypeError
    ELSE LET option_index == Ord(LowerChar(selected_option[1])) - Ord("a")
         IN IF option_index < 0 \/ option_index >= Len(top_candidates)
            THEN CreateAbstainResult("invalid_option_selected", 0, 0)
            ELSE LET hs_code == top_candidates[option_index + 1].goods_code
                 IN IF ~Truthy(hs_code)
                    THEN CreateAbstainResult("no_hs_code_in_selected", 0, 0)
                    ELSE [hs_code |-> hs_code,
                          confidence |-> 100,
                          margin |-> 0,
                          method |-> RETRIEVAL_RERANK_CALIBRATE,
                          abstained |-> FALSE,
                          clarification_used |-> TRUE,
                          selected_option |-> selected_option]

----------------------------------------------------------------------------
(* The reference store read by the deterministic builder,                  *)
(* src/db/models.py.  A store is a record of tables; a table is the        *)
(* sequence of its rows in the order a query returns them.  Dates, levels  *)
(* and descriptions are left out: the schema makes them non-null and the   *)
(* builder copies them.                                                    *)

hs_6110 == <<"6","1","1","0">>
hs_61102000 == <<"6","1","1","0","2","0","0","0">>
hs_611020 == <<"6","1","1","0","2","0">>
hs_6109 == <<"6","1","0","9">>
erga_omnes == <<"E","R","G","A"," ","O","M","N","E","S">>
cc_PK == <<"P","K">>
cc_DE == <<"D","E">>
cc_XX == <<"X","X">>
cc_de == <<"d","e">>
lb_001 == <<"L","B","0","0","1">>
lb_002 == <<"L","B","0","0","2">>
cert_N954 == <<"N","9","5","4">>

ad_valorem == <<"a","d","_","v","a","l","o","r","e","m">>
specific == <<"s","p","e","c","i","f","i","c">>
percent == <<"p","e","r","c","e","n","t">>

\* the store of the repository's workflow test (tests/test_workflow.py:97-144)
\* extended by a preferential measure, a second heading and three VAT rows
RefStore ==
    [goods_nomenclature |-> {hs_6110, hs_611020, hs_61102000, hs_6109},
     measures_import |->
        <<[goods_code |-> hs_61102000, origin_group |-> erga_omnes,
           duty_components |-> <<[type |-> ad_valorem, value |-> <<1200>>, unit |-> percent]>>,
           legal_base_id |-> lb_001, legal_base_title |-> lb_001,
           cond_cert_code |-> None],
          [goods_code |-> hs_61102000, origin_group |-> cc_PK,
           duty_components |-> <<[type |-> ad_valorem, value |-> <<850>>, unit |-> percent]>>,
           legal_base_id |-> lb_002, legal_base_title |-> lb_002,
           cond_cert_code |-> cert_N954]>>,
     measures_export |-> <<>>,
     vat_rates |-> <<[country_code |-> cc_DE, standard_rate |-> 1900],
                     [country_code |-> cc_de, standard_rate |-> 1900],
                     [country_code |-> cc_XX, standard_rate |-> 15000],
                     [country_code |-> Lower(cc_XX), standard_rate |-> 15000]>>,
     exchange_rates |-> <<>>,
     measure_conditions |-> <<>>,
     reach_map |-> {hs_611020}]

\* The connection to the store during one build: db is the number of the
\* builder's reads that are answered before the connection is lost.  The
\* reads, in order: 1 SELECT 1, 2 nomenclature, 3 import measures, 4 export
\* measures, 5 VAT rates, 6 exchange rates, 7 measure conditions, 8 REACH map.
DbReads == 8
ReadFails(db, read) == read > db

AllDigits(s) == \A i \in DOMAIN s : IsDigit(s[i])

\* QueryParameters(...) validates (response.py:42-48): hs_code matches
\* ^[0-9]{4,10}$, origin and destination are str of 2 to 3 characters
QueryParametersValid(hs_code, origin, destination) ==
    /\ hs_code # None /\ origin # None /\ destination # None
    /\ Len(hs_code) >= 4 /\ Len(hs_code) <= 10 /\ AllDigits(hs_code)
    /\ Len(origin) >= 2 /\ Len(origin) <= 3
    /\ Len(destination) >= 2 /\ Len(destination) <= 3

\* DeterministicBuilder._get_goods_nomenclature: the code, then the code cut
\* by two characters at a time while at least 4 remain
RECURSIVE NomenclatureWalk(_, _)
NomenclatureWalk(store, current_code) ==
    IF Len(current_code) < 4 THEN <<>>
    ELSE (IF current_code \in store.goods_nomenclature
          THEN <<current_code>> ELSE <<>>)
         \o (IF Len(current_code) <= 4 THEN <<>>
             ELSE NomenclatureWalk(store, SubSeq(current_code, 1, Len(current_code) - 2)))

GetGoodsNomenclature(store, db, hs_code) ==
    IF ReadFails(db, 2) THEN <<>> ELSE NomenclatureWalk(store, hs_code)

DutyTypes == {ad_valorem, specific, <<"c","o","m","p","o","u","n","d">>}
DutyUnits == {percent, <<"e","u","r","/","1","0","0","k","g">>,
              <<"e","u","r","/","u","n","i","t">>, <<"m","i","x","e","d">>}

\* DeterministicBuilder._parse_duty_components.  A key the stored component
\* lacks (None here, << >> for the number) takes the default of comp.get:
\* 'ad_valorem', 0,
\* 'percent'; a component that is no valid DutyComponent makes the whole
\* parse return [].  A stored single object is parsed as a list of one.
ParseDutyComponents(duty_components_json) ==
    LET parsed == [i \in DOMAIN duty_components_json |->
                    LET comp == duty_components_json[i]
                    IN [type |-> IF comp.type = None THEN ad_valorem ELSE comp.type,
                        value |-> IF comp.value = <<>> THEN 0 ELSE comp.value[1],
                        unit |-> IF comp.unit = None THEN percent ELSE comp.unit]]
    IN IF \A i \in DOMAIN parsed :
             parsed[i].type \in DutyTypes /\ parsed[i].unit \in DutyUnits
       THEN parsed
       ELSE <<>>

MeasureOf(row, group) ==
    [goods_code |-> row.goods_code,
     group |-> group,
     duty_components |-> ParseDutyComponents(row.duty_components),
     legal_base |-> [id |-> row.legal_base_id, title |-> row.legal_base_title],
     cond_cert_code |-> row.cond_cert_code]

\* ImportMeasure / ExportMeasure validate: duty_components has min_items=1
MeasuresValid(measures) ==
    \A i \in DOMAIN measures : measures[i].duty_components # <<>>

\* DeterministicBuilder._get_import_measures; any exception gives []
GetImportMeasures(store, db, hs_code, origin) ==
    IF ReadFails(db, 3) THEN <<>>
    ELSE LET Match(row) == /\ row.goods_code = hs_code
                           /\ (row.origin_group = erga_omnes \/ row.origin_group = origin)
             rows == SelectSeq(store.measures_import, Match)
             measures == [i \in DOMAIN rows |-> MeasureOf(rows[i], rows[i].origin_group)]
         IN IF MeasuresValid(measures) THEN measures ELSE <<>>

\* DeterministicBuilder._get_export_measures; any exception gives []
GetExportMeasures(store, db, hs_code, destination) ==
    IF ReadFails(db, 4) THEN <<>>
    ELSE LET Match(row) == /\ row.goods_code = hs_code
                           /\ row.destination_group = destination
             rows == SelectSeq(store.measures_export, Match)
             measures == [i \in DOMAIN rows |-> MeasureOf(rows[i], rows[i].destination_group)]
         IN IF MeasuresValid(measures) THEN measures ELSE <<>>

\* DeterministicBuilder._get_vat_rates; any exception gives []
GetVatRates(store, db, country) ==
    IF ReadFails(db, 5) THEN <<>>
    ELSE LET Match(row) == row.country_code = country
             rows == SelectSeq(store.vat_rates, Match)
         IN [i \in DOMAIN rows |->
                [country |-> rows[i].country_code,
                 standard_rate_percent |-> rows[i].standard_rate]]

\* DeterministicBuilder._get_exchange_rates; any exception gives []
GetExchangeRates(store, db) ==
    IF ReadFails(db, 6) THEN <<>> ELSE store.exchange_rates

\* DeterministicBuilder._get_measure_conditions; any exception gives []
GetMeasureConditions(store, db, hs_code) ==
    IF ReadFails(db, 7) THEN <<>>
    ELSE LET Match(row) == row.goods_code = hs_code
         IN SelectSeq(store.measure_conditions, Match)

\* an Optional[float] that is None
NoRate == <<>>

\* DeterministicBuilder._extract_duty_rate: the first ad-valorem percentage
ExtractDutyRate(duty_components) ==
    LET hits == {i \in DOMAIN duty_components :
                    /\ duty_components[i].type = ad_valorem
                    /\ duty_components[i].unit = percent}
    IN IF hits = {} THEN NoRate
       ELSE <<duty_components[CHOOSE i \in hits : \A j \in hits : i <= j].value>>

NoResolution == [present |-> FALSE]

\* the mutation of ResolveApplicableRate that never prefers the origin's
\* own measure
ResolveApplicableRateUniversal(import_measures, origin) ==
    LET erga == {i \in DOMAIN import_measures : import_measures[i].group = erga_omnes}
        last == CHOOSE i \in erga : \A j \in erga : j <= i
    IN IF erga = {} THEN NoResolution
       ELSE [present |-> TRUE,
             preference_possible |-> FALSE,
             required_proof |-> None,
             chosen_measure_origin |-> erga_omnes,
             chosen_duty_rate_percent |->
                 ExtractDutyRate(import_measures[last].duty_components),
             fallback_if_no_proof_percent |-> NoRate]

\* DeterministicBuilder._resolve_applicable_rate: the loop keeps the last
\* measure of the origin and the last ERGA OMNES measure that is not of it
ResolveApplicableRate(import_measures, origin) ==
    IF import_measures = <<>> THEN NoResolution
    ELSE LET pref == {i \in DOMAIN import_measures : import_measures[i].group = origin}
             erga == {i \in DOMAIN import_measures :
                         /\ import_measures[i].group # origin
                         /\ import_measures[i].group = erga_omnes}
             last(S) == CHOOSE i \in S : \A j \in S : j <= i
         IN IF pref # {}
            THEN [present |-> TRUE,
                  preference_possible |-> TRUE,
                  required_proof |-> import_measures[last(pref)].cond_cert_code,
                  chosen_measure_origin |-> origin,
                  chosen_duty_rate_percent |->
                      ExtractDutyRate(import_measures[last(pref)].duty_components),
                  fallback_if_no_proof_percent |->
                      IF erga # {}
                      THEN ExtractDutyRate(import_measures[last(erga)].duty_components)
                      ELSE NoRate]
            ELSE IF erga # {}
            THEN [present |-> TRUE,
                  preference_possible |-> FALSE,
                  required_proof |-> None,
                  chosen_measure_origin |-> erga_omnes,
                  chosen_duty_rate_percent |->
                      ExtractDutyRate(import_measures[last(erga)].duty_components),
                  fallback_if_no_proof_percent |-> NoRate]
            ELSE NoResolution

\* an Optional[bool]: "True", "False" or "None"
Flag(b) == IF b THEN "True" ELSE "False"

\* DeterministicBuilder._assess_completeness: <<completeness, unknowns>>; a
\* failing REACH read gives a blank Completeness and no unknowns
AssessCompleteness(store, db, hs_code, import_measures, export_measures, vat_rates) ==
    LET all_measures == import_measures \o export_measures
        legal == \A i \in DOMAIN all_measures :
                    /\ Truthy(all_measures[i].legal_base.id)
                    /\ Truthy(all_measures[i].legal_base.title)
        vat == Len(vat_rates) > 0
        reach == Take(hs_code, 6) \in store.reach_map
    IN IF ReadFails(db, 8)
       THEN <<[has_reach_mapping |-> "None",
               all_measures_have_legal_base |-> "None",
               all_required_vat_present |-> "None"], <<>>>>
       ELSE <<[has_reach_mapping |-> Flag(reach),
               all_measures_have_legal_base |-> Flag(legal),
               all_required_vat_present |-> Flag(vat)],
              (IF legal THEN <<>> ELSE <<"legal_base">>)
                  \o (IF vat THEN <<>> ELSE <<"vat_rates">>)
                  \o (IF reach THEN <<>> ELSE <<"reach_mapping">>)>>

\* DeterministicBuilder._get_provenance: the distinct legal base ids in order
\* of first use
GetProvenance(import_measures, export_measures) ==
    LET all_measures == import_measures \o export_measures
        F[i \in 0..Len(all_measures)] ==
            IF i = 0 THEN <<>>
            ELSE LET base_id == all_measures[i].legal_base.id
                 IN IF Truthy(base_id) /\ ~\E k \in DOMAIN F[i - 1] : F[i - 1][k] = base_id
                    THEN Append(F[i - 1], base_id)
                    ELSE F[i - 1]
    IN F[Len(all_measures)]

\* DeterministicBuilder.build_response with _build_deterministic_values.  It
\* raises when SELECT 1 fails, when QueryParameters does not validate, and
\* when DeterministicValues or Provenance does not validate (min_items=1 on
\* goods_nomenclature_en, import_measures, vat_rates and legal_bases).
BuildResponse(store, db, hs_code, origin, destination) ==
    IF ReadFails(db, 1) THEN Raised
    ELSE IF ~QueryParametersValid(hs_code, origin, destination) THEN Raised
    ELSE LET goods_nomenclature == GetGoodsNomenclature(store, db, hs_code)
             import_measures == GetImportMeasures(store, db, hs_code, origin)
             export_measures == GetExportMeasures(store, db, hs_code, destination)
             vat_rates == GetVatRates(store, db, destination)
             exchange_rates == GetExchangeRates(store, db)
             measure_conditions == GetMeasureConditions(store, db, hs_code)
             resolution == ResolveApplicableRate(import_measures, origin)
             cu == AssessCompleteness(store, db, hs_code, import_measures,
                                      export_measures, vat_rates)
             provenance == GetProvenance(import_measures, export_measures)
         IN IF \/ provenance = <<>>
               \/ goods_nomenclature = <<>>
               \/ import_measures = <<>>
               \/ vat_rates = <<>>
            THEN Raised
            ELSE Returned(
                   [query_parameters |-> [hs_code |-> hs_code, origin |-> origin,
                                          destination |-> destination],
                    goods_nomenclature_en |-> goods_nomenclature,
                    import_measures |-> import_measures,
                    export_measures |-> export_measures,
                    vat_rates |-> vat_rates,
                    exchange_rates |-> exchange_rates,
                    measure_conditions |-> measure_conditions,
                    applicable_rate_resolution |-> resolution,
                    completeness |-> cu[1],
                    unknowns |-> cu[2],
                    provenance |-> provenance])

\* the mutation of ValidateTradeResponse that does not look at the import
\* measures
ValidateTradeResponseWithoutMeasures(payload) ==
    /\ payload.goods_nomenclature_en # <<>>
    /\ payload.vat_rates # <<>>
    /\ payload.provenance # <<>>
    /\ \A i \in DOMAIN payload.vat_rates :
          /\ payload.vat_rates[i].standard_rate_percent >= 0
          /\ payload.vat_rates[i].standard_rate_percent <= 10000

\* The validation gate, validate_trade_response (validation.py:102-112).  The
\* JSON schema it loads (schema/trade_response.schema.json) is not among the
\* sources; its checks are taken from the specification: the mandated
\* collections are non-empty and every percentage is within 0..100.
ValidateTradeResponse(payload) ==
    /\ payload.goods_nomenclature_en # <<>>
    /\ payload.import_measures # <<>>
    /\ payload.vat_rates # <<>>
    /\ payload.provenance # <<>>
    /\ \A i \in DOMAIN payload.vat_rates :
          /\ payload.vat_rates[i].standard_rate_percent >= 0
          /\ payload.vat_rates[i].standard_rate_percent <= 10000

----------------------------------------------------------------------------
(* Inputs of the pipeline.                                                 *)


MaxCands == 3

\* documents handed to the reranker: one more than top_k_rerank keeps
MaxRerankDocs == 6

\* the goods_code a stored payload may carry
CandCodes == {None, hs_6110, hs_61102000}

\* rerank scores: gaps of 0, 5 (below the margin threshold), 7 (on it), 12
ScoreVals == {0, 5, 12}

\* probabilities of a trained calibrator: below, on and above the threshold
ConfVals == {61, 62, 90}

CalStates(confs) ==
    {[state |-> "untrained", p |-> 0], [state |-> "error", p |-> 0]}
        \cup {[state |-> "trained", p |-> c] : c \in confs}

CandidateLists(maxc) ==
    UNION {{[i \in 1..k |-> [id |-> i, goods_code |-> f[i]]] : f \in [1..k -> CandCodes]}
           : k \in 0..maxc}

\* One classify call's stage outcomes.  The outcomes of stages the call
\* never reaches are fixed to one value.
Env(search, predict, feat_fault, cal) ==
    [search |-> search, predict |-> predict, feat_fault |-> feat_fault, cal |-> cal]

IdlePredict == Returned(<<>>)
IdleCal == [state |-> "untrained", p |-> 0]

SelectedOptions ==
    {<<"a">>, <<"b">>, <<"c">>, <<"d">>, <<"B">>, <<"1">>, <<>>, <<"a","b">>}

tee == <<"t","e","e">>

----------------------------------------------------------------------------
(* The pipeline called directly: cls holds the arguments of one call, and  *)
(* the call's result once it has returned.                                 *)

CallClassify ==
    /\ cls.op = "classify"
    /\ ~cls.returned
    /\ cls' = [op |-> "classify", env |-> cls.env, returned |-> TRUE,
               result |-> Classify(cls.env)]
    /\ UNCHANGED <<hashOf, clarification_sessions, served, reply, abstained_log,
                   answer_log, points, embedding_model_bound, added>>

CallClassifyWithClarification ==
    /\ cls.op = "classify_with_clarification"
    /\ ~cls.returned
    /\ cls' = [op |-> "classify_with_clarification",
               selected_option |-> cls.selected_option,
               top_candidates |-> cls.top_candidates,
               returned |-> TRUE,
               result |-> ClassifyWithClarification(tee, cls.selected_option,
                                                    cls.top_candidates)]
    /\ UNCHANGED <<hashOf, clarification_sessions, served, reply, abstained_log,
                   answer_log, points, embedding_model_bound, added>>

\* get_clarifying_question called with a list of reranked candidates; the
\* process's hash of the query is 7
CallGetClarifyingQuestion ==
    /\ cls.op = "get_clarifying_question"
    /\ ~cls.returned
    /\ cls' = [op |-> "get_clarifying_question",
               top_candidates |-> cls.top_candidates,
               returned |-> TRUE,
               result |-> GetClarifyingQuestion((tee :> 7), tee, cls.top_candidates)]
    /\ UNCHANGED <<hashOf, clarification_sessions, served, reply, abstained_log,
                   answer_log, points, embedding_model_bound, added>>

\* rerank_with_metadata called with the retrieved documents
CallRerankWithMetadata ==
    /\ cls.op = "rerank_with_metadata"
    /\ ~cls.returned
    /\ cls' = [op |-> "rerank_with_metadata",
               documents |-> cls.documents,
               predict |-> cls.predict,
               returned |-> TRUE,
               result |-> RerankWithMetadata(cls.documents, cls.predict)]
    /\ UNCHANGED <<hashOf, clarification_sessions, served, reply, abstained_log,
                   answer_log, points, embedding_model_bound, added>>

\* get_confidence_features called with the list rerank_with_metadata
\* returned, as classify does (pipeline.py:55-62)
CallGetConfidenceFeatures ==
    /\ cls.op = "rerank_with_metadata"
    /\ cls.returned
    /\ ~cls.result.raised
    /\ cls' = [op |-> "get_confidence_features",
               top_results |-> cls.result.value,
               returned |-> TRUE,
               result |-> GetConfidenceFeatures(cls.result.value, FALSE)]
    /\ UNCHANGED <<hashOf, clarification_sessions, served, reply, abstained_log,
                   answer_log, points, embedding_model_bound, added>>

\* classify_with_clarification called with the id of an option of the
\* question just built and the list the question was built from
CallClassifyWithOption ==
    /\ cls.op = "get_clarifying_question"
    /\ cls.returned
    /\ cls.result.present
    /\ \E k \in DOMAIN cls.result.options :
          cls' = [op |-> "classify_with_clarification",
                  selected_option |-> cls.result.options[k].id,
                  top_candidates |-> cls.top_candidates,
                  option |-> cls.result.options[k],
                  returned |-> TRUE,
                  result |-> ClassifyWithClarification(tee, cls.result.options[k].id,
                                                       cls.top_candidates)]
    /\ UNCHANGED <<hashOf, clarification_sessions, served, reply, abstained_log,
                   answer_log, points, embedding_model_bound, added>>

PipelineNext ==
    \/ CallClassify
    \/ CallClassifyWithOption
    \/ CallClassifyWithClarification
    \/ CallGetClarifyingQuestion
    \/ CallRerankWithMetadata
    \/ CallGetConfidenceFeatures

IdleChat ==
    /\ hashOf = <<>>
    /\ clarification_sessions = <<>>
    /\ served = 0
    /\ reply = [op |-> "none"]
    /\ abstained_log = {}
    /\ answer_log = <<>>

IdleIndex ==
    /\ points = <<>>
    /\ embedding_model_bound = FALSE
    /\ added = 0

IdlePipeline == cls = [op |-> "none", returned |-> FALSE]

ClassifyCall(env) == [op |-> "classify", env |-> env, returned |-> FALSE]

ClarificationCall(selected_option, top_candidates) ==
    [op |-> "classify_with_clarification", selected_option |-> selected_option,
     top_candidates |-> top_candidates, returned |-> FALSE]

\* one call of classify with any combination of stage outcomes, or one call
\* of classify_with_clarification with any option and any reranked list
PipelineInit ==
    /\ IdleChat
    /\ IdleIndex
    /\ \/ cls = ClassifyCall(Env(Raised, IdlePredict, FALSE, IdleCal))
       \/ \E c \in CandidateLists(MaxCands) :
             IF c = <<>>
             THEN cls = ClassifyCall(Env(Returned(c), IdlePredict, FALSE, IdleCal))
             ELSE \/ cls = ClassifyCall(Env(Returned(c), Raised, FALSE, IdleCal))
                  \/ \E sc \in [1..Len(c) -> ScoreVals] :
                        \/ cls = ClassifyCall(Env(Returned(c), Returned(sc), TRUE,
                                                  IdleCal))
                        \/ \E cal \in CalStates(ConfVals) :
                              cls = ClassifyCall(Env(Returned(c), Returned(sc), FALSE,
                                                     cal))
       \/ \E opt \in SelectedOptions, c \in CandidateLists(MaxCands),
             sc \in [1..MaxCands -> {0, 12}] :
             cls = ClarificationCall(opt, RerankWithMetadata(c, Returned(sc)).value)
       \/ \E c \in CandidateLists(MaxCands + 1) :
             cls = [op |-> "get_clarifying_question",
                    top_candidates |->
                        RerankWithMetadata(c, Returned([i \in DOMAIN c |-> 12])).value,
                    returned |-> FALSE]
       \/ \E n \in 0..MaxRerankDocs :
             LET documents == [i \in 1..n |-> [id |-> i, goods_code |-> hs_6110]]
             IN \/ cls = [op |-> "rerank_with_metadata", documents |-> documents,
                          predict |-> Raised, returned |-> FALSE]
                \/ \E sc \in [1..n -> ScoreVals] :
                      cls = [op |-> "rerank_with_metadata", documents |-> documents,
                             predict |-> Returned(sc), returned |-> FALSE]

SpecPipeline == PipelineInit /\ [][PipelineNext]_vars

----------------------------------------------------------------------------
(* The deterministic builder called directly: cls holds the store, the     *)
(* connection and the arguments of one build_response call, and the call's *)
(* result once it has returned.                                            *)

MaxRows == 2

cc_CN == <<"C","N">>
cc_FR == <<"F","R">>
eur_100kg == <<"e","u","r","/","1","0","0","k","g">>

ImportRow(group, components, base, cert) ==
    [goods_code |-> hs_61102000, origin_group |-> group,
     duty_components |-> components,
     legal_base_id |-> base, legal_base_title |-> base,
     cond_cert_code |-> cert]

\* rows a measures_import table may hold for one code: complete ad-valorem
\* measures, a specific duty, components that lack a value, or a type
\* and a unit (duty_components is free-form JSON, models.py:50), and a
\* measure whose legal base id and title are the empty string
ImportRows ==
    {ImportRow(erga_omnes, <<[type |-> ad_valorem, value |-> <<1200>>, unit |-> percent]>>,
               lb_001, None),
     ImportRow(cc_PK, <<[type |-> ad_valorem, value |-> <<850>>, unit |-> percent]>>,
               lb_002, cert_N954),
     ImportRow(cc_PK, <<[type |-> ad_valorem, value |-> <<500>>, unit |-> percent]>>,
               lb_002, None),
     ImportRow(cc_PK, <<[type |-> specific, value |-> <<300>>, unit |-> eur_100kg]>>,
               lb_002, None),
     ImportRow(cc_PK, <<[type |-> ad_valorem, value |-> <<>>, unit |-> percent]>>,
               lb_002, None),
     ImportRow(erga_omnes, <<[type |-> None, value |-> <<400>>, unit |-> None]>>,
               lb_001, None),
     ImportRow(erga_omnes, <<[type |-> ad_valorem, value |-> <<1200>>, unit |-> percent]>>,
               <<>>, None)}

ImportTables == UNION {[1..k -> ImportRows] : k \in 0..MaxRows}

StoreWith(measures_import) ==
    [RefStore EXCEPT !.measures_import = measures_import]

BuildCall(store, db, hs_code, origin, destination) ==
    [op |-> "build_response", store |-> store, db |-> db, hs_code |-> hs_code,
     origin |-> origin, destination |-> destination, returned |-> FALSE]

CallBuildResponse ==
    /\ cls.op = "build_response"
    /\ ~cls.returned
    /\ cls' = [k \in DOMAIN cls \cup {"result"} |->
                 IF k = "result"
                 THEN BuildResponse(cls.store, cls.db, cls.hs_code, cls.origin,
                                    cls.destination)
                 ELSE IF k = "returned" THEN TRUE
                 ELSE cls[k]]
    /\ UNCHANGED <<hashOf, clarification_sessions, served, reply, abstained_log,
                   answer_log, points, embedding_model_bound, added>>

\* one build_response call: any table of import measures, the connection
\* lost after any number of reads, a code with and one without measures,
\* an origin with and one without a preference, a destination with and one
\* without a VAT row, the REACH map with and without the code's prefix
BuilderInit ==
    /\ IdleChat
    /\ IdleIndex
    /\ \E table \in ImportTables, db \in 0..DbReads,
          hs_code \in {hs_61102000, hs_6109},
          origin \in {cc_PK, cc_CN}, destination \in {cc_DE, cc_FR},
          reach_map \in {RefStore.reach_map, {}} :
          cls = BuildCall([StoreWith(table) EXCEPT !.reach_map = reach_map],
                          db, hs_code, origin, destination)

\* the codes handed to the hierarchy walk: every length from 4 to 10
MaxCodeLen == 10
hs_6110200010 == hs_61102000 \o <<"1","0">>
WalkCodes == {Take(hs_6110200010, n) : n \in 4..MaxCodeLen}

\* one direct call of _get_goods_nomenclature (the first statement of
\* _build_deterministic_values, deterministic_builder.py:114)
CallGetGoodsNomenclature ==
    /\ cls.op = "get_goods_nomenclature"
    /\ ~cls.returned
    /\ cls' = [k \in DOMAIN cls \cup {"result"} |->
                 IF k = "result"
                 THEN GetGoodsNomenclature(cls.store, cls.db, cls.hs_code)
                 ELSE IF k = "returned" THEN TRUE
                 ELSE cls[k]]
    /\ UNCHANGED <<hashOf, clarification_sessions, served, reply, abstained_log,
                   answer_log, points, embedding_model_bound, added>>

\* one walk: a code of any length from 4 to 10 over any set of nomenclature
\* rows among its prefixes, the connection up or lost
WalkInit ==
    /\ IdleChat
    /\ IdleIndex
    /\ \E hs_code \in WalkCodes, rows \in SUBSET WalkCodes, db \in {1, DbReads} :
          cls = [op |-> "get_goods_nomenclature",
                 store |-> [RefStore EXCEPT !.goods_nomenclature = rows],
                 db |-> db, hs_code |-> hs_code, returned |-> FALSE]

BuilderNext == CallBuildResponse \/ CallGetGoodsNomenclature

SpecBuilder == (BuilderInit \/ WalkInit) /\ [][BuilderNext]_vars

----------------------------------------------------------------------------
(* The validation gate called directly: cls holds the payload of one call  *)
(* of validate_trade_response, and the call's outcome once it has          *)
(* returned.  The payloads are the ones the builder returns, with any of   *)
(* the collections the schema mandates emptied afterwards (a pydantic      *)
(* model is not validated again when a field is assigned).                 *)

MandatedCollections ==
    {"goods_nomenclature_en", "import_measures", "vat_rates", "provenance"}

Emptied(payload, fields) ==
    [k \in DOMAIN payload |-> IF k \in fields THEN <<>> ELSE payload[k]]

ValidateCall(payload) == [op |-> "validate", payload |-> payload, returned |-> FALSE]

\* validate_trade_response returns True or raises (validation.py:50-57)
CallValidateTradeResponse ==
    /\ cls.op = "validate"
    /\ ~cls.returned
    /\ cls' = [op |-> "validate", payload |-> cls.payload, returned |-> TRUE,
               result |-> IF ValidateTradeResponse(cls.payload)
                          THEN Returned(TRUE) ELSE Raised]
    /\ UNCHANGED <<hashOf, clarification_sessions, served, reply, abstained_log,
                   answer_log, points, embedding_model_bound, added>>

GateInit ==
    /\ IdleChat
    /\ IdleIndex
    /\ \E table \in ImportTables, destination \in {cc_DE, cc_XX},
          fields \in SUBSET MandatedCollections :
          LET built == BuildResponse(StoreWith(table), DbReads, hs_61102000, cc_PK,
                                     destination)
          IN /\ ~built.raised
             /\ cls = ValidateCall(Emptied(built.value, fields))

GateNext == CallValidateTradeResponse

SpecGate == GateInit /\ [][GateNext]_vars

----------------------------------------------------------------------------
(* The explainer's LLM call, src/services/explainer.py.  cls holds the      *)
(* prompt of one call of _call_llm and what the Ollama client does with    *)
(* it, and the call's result once it has returned.                         *)

MaxReplyLen == 3

\* the characters of an LLM reply
ReplyChars == {" ", "o", "k"}

ReplyTexts == UNION {[1..n -> ReplyChars] : n \in 0..MaxReplyLen}

\* what self.client.generate does: it raises (a timeout, a refused
\* connection), returns a dict without the key 'response', or returns one
\* with a text
LlmOutcomes ==
    {[kind |-> "timeout"], [kind |-> "connection_error"], [kind |-> "no_response_key"]}
        \cup {[kind |-> "response", text |-> t] : t \in ReplyTexts}

Prompts == {<<"h","e","l","l","o">>, <<>>}

\* ExplainerService._call_llm (explainer.py:208-236): the stripped reply,
\* None after any exception
CallLlm(prompt, outcome) ==
    IF outcome.kind = "response" THEN Strip(outcome.text) ELSE None

LlmCall(prompt, outcome) ==
    [op |-> "call_llm", prompt |-> prompt, outcome |-> outcome, returned |-> FALSE]

CallCallLlm ==
    /\ cls.op = "call_llm"
    /\ ~cls.returned
    /\ cls' = [op |-> "call_llm", prompt |-> cls.prompt, outcome |-> cls.outcome,
               returned |-> TRUE, result |-> CallLlm(cls.prompt, cls.outcome)]
    /\ UNCHANGED <<hashOf, clarification_sessions, served, reply, abstained_log,
                   answer_log, points, embedding_model_bound, added>>

ExplainerInit ==
    /\ IdleChat
    /\ IdleIndex
    /\ \E prompt \in Prompts, outcome \in LlmOutcomes : cls = LlmCall(prompt, outcome)

ExplainerNext == CallCallLlm

SpecExplainer == ExplainerInit /\ [][ExplainerNext]_vars

----------------------------------------------------------------------------
(* The authentication middleware, src/api/middleware/auth.py.  cls holds   *)
(* one request (its path and what its headers carry) and, once dispatch    *)
(* has returned, whether the handler was reached.                          *)

\* the list in _is_public_endpoint (auth.py:66-86)
public_paths ==
    <<<<"/", "h", "e", "a", "l", "t", "h", "z">>,
      <<"/", "r", "e", "a", "d", "y", "z">>,
      <<"/", "l", "i", "v", "e", "z">>,
      <<"/", "d", "o", "c", "s">>,
      <<"/", "r", "e", "d", "o", "c">>,
      <<"/", "o", "p", "e", "n", "a", "p", "i", ".", "j", "s", "o", "n">>,
      <<"/">>,
      <<"/", "a", "p", "i", "/", "v", "1", "/", "d", "e", "t", "e", "r", "m", "i", "n", "i", "s", "t", "i", "c", "-", "j", "s", "o", "n">>,
      <<"/", "a", "p", "i", "/", "v", "1", "/", "d", "e", "t", "e", "r", "m", "i", "n", "i", "s", "t", "i", "c", "-", "j", "s", "o", "n", "+", "e", "x", "p", "l", "a", "i", "n">>,
      <<"/", "a", "p", "i", "/", "v", "1", "/", "c", "h", "a", "t", "/", "r", "e", "s", "o", "l", "v", "e">>,
      <<"/", "a", "p", "i", "/", "v", "1", "/", "c", "h", "a", "t", "/", "a", "n", "s", "w", "e", "r">>,
      <<"/", "t", "e", "s", "t", "-">>,
      <<"/", "t", "e", "s", "t", "-", "d", "e", "t", "e", "r", "m", "i", "n", "i", "s", "t", "i", "c">>,
      <<"/", "t", "e", "s", "t", "-", "d", "e", "t", "e", "r", "m", "i", "n", "i", "s", "t", "i", "c", "-", "d", "e", "p">>,
      <<"/", "t", "e", "s", "t", "-", "r", "e", "q", "u", "e", "s", "t", "-", "v", "a", "l", "i", "d", "a", "t", "i", "o", "n">>,
      <<"/", "t", "e", "s", "t", "-", "r", "a", "w", "-", "r", "e", "q", "u", "e", "s", "t">>,
      <<"/", "t", "e", "s", "t", "-", "s", "i", "m", "p", "l", "e", "-">>,
      <<"/", "t", "e", "s", "t", "-", "d", "e", "p", "-", "r", "a", "w">>,
      <<"/", "t", "e", "s", "t", "-", "m", "i", "n", "i", "m", "a", "l">>>>

\* path.startswith(prefix)
StartsWith(path, prefix) ==
    Len(prefix) <= Len(path) /\ SubSeq(path, 1, Len(prefix)) = prefix

\* AuthMiddleware._is_public_endpoint
IsPublicEndpoint(path) ==
    \E i \in DOMAIN public_paths : StartsWith(path, public_paths[i])

RequestPaths ==
    {<<"/", "h", "e", "a", "l", "t", "h", "z">>,
     <<"/", "d", "o", "c", "s">>,
     <<"/">>,
     <<"/", "a", "p", "i", "/", "v", "1", "/", "c", "h", "a", "t", "/", "r", "e", "s", "o", "l", "v", "e">>,
     <<"/", "a", "p", "i", "/", "v", "1", "/", "d", "e", "t", "e", "r", "m", "i", "n", "i", "s", "t", "i", "c", "-", "j", "s", "o", "n", "+", "e", "x", "p", "l", "a", "i", "n">>,
     <<"/", "a", "p", "i", "/", "v", "1", "/", "e", "t", "l", "/", "i", "n", "g", "e", "s", "t">>,
     <<"/", "a", "d", "m", "i", "n">>,
     <<"/", "m", "e", "t", "r", "i", "c", "s">>}

\* what jwt.decode makes of a token (auth.py:108-123)
TokenKinds == {"valid", "expired", "malformed"}

\* the credentials of a request: no token, or a token of some kind in the
\* Authorization header (bearer) or in X-API-Key; with both, the bearer
\* token is the one used (auth.py:91-99)
Credentials ==
    {[bearer |-> b, api_key |-> k] : b, k \in TokenKinds \cup {"absent"}}

\* AuthMiddleware._extract_token
ExtractToken(credentials) ==
    IF credentials.bearer # "absent" THEN credentials.bearer
    ELSE credentials.api_key

Unauthorized == [status |-> 401, handler_reached |-> FALSE]
CallNext == [status |-> 200, handler_reached |-> TRUE]

\* AuthMiddleware.dispatch (auth.py:33-61)
Dispatch(path, credentials) ==
    IF IsPublicEndpoint(path) THEN CallNext
    ELSE LET token == ExtractToken(credentials)
         IN IF token = "absent" THEN Unauthorized
            ELSE IF token # "valid" THEN Unauthorized
            ELSE CallNext

DispatchCall(path, credentials) ==
    [op |-> "dispatch", path |-> path, credentials |-> credentials,
     returned |-> FALSE]

CallDispatch ==
    /\ cls.op = "dispatch"
    /\ ~cls.returned
    /\ cls' = [op |-> "dispatch", path |-> cls.path, credentials |-> cls.credentials,
               returned |-> TRUE, result |-> Dispatch(cls.path, cls.credentials)]
    /\ UNCHANGED <<hashOf, clarification_sessions, served, reply, abstained_log,
                   answer_log, points, embedding_model_bound, added>>

AuthInit ==
    /\ IdleChat
    /\ IdleIndex
    /\ \E path \in RequestPaths, credentials \in Credentials :
          cls = DispatchCall(path, credentials)

AuthNext == CallDispatch

SpecAuth == AuthInit /\ [][AuthNext]_vars

----------------------------------------------------------------------------
(* The chat and deterministic routers, src/api/routers.  The handlers are  *)
(* async def functions that never yield to the event loop before they      *)
(* return (the one await, of _extract_query_parameters, awaits a coroutine *)
(* without suspension points), so each request is one atomic step.         *)

MaxRequests == 3

msg_pk == <<"i","m","p","o","r","t"," ","t","e","e"," ","f","r","o","m"," ",
            "P","K"," ","t","o"," ","D","E">>
msg_pakistan == <<"i","m","p","o","r","t"," ","t","e","e"," ","f","r","o","m"," ",
                  "P","a","k","i","s","t","a","n"," ","t","o"," ","D","E">>
msg_hello == <<"h","e","l","l","o">>

\* ChatResolveRequest.message: a str of 1 to 1000 characters
Messages == {msg_pk, msg_pakistan, msg_hello}

Extracted == [m \in Messages |-> ExtractQueryParameters(m)]

\* the strings the handlers pass to hash(): the messages that carry a
\* product, and the product descriptions
HashedTexts ==
    {m \in Messages : Truthy(Extracted[m].product_description)}
        \cup ({Extracted[m].product_description : m \in Messages} \ {<<>>})

\* values of hash(): two that differ modulo 10000 and two that do not
HashVals == {3, 7, 10003}

Cand(i, code) == [id |-> i, goods_code |-> code]

\* the stage outcomes of the classify call of one resolve request
ChatEnvs ==
    LET on == [state |-> "trained", p |-> 90]
        off == [state |-> "untrained", p |-> 0]
        hoodies == <<Cand(1, hs_61102000), Cand(2, hs_6110)>>
        headings == <<Cand(1, hs_6110), Cand(2, hs_61102000)>>
    IN {[search |-> Raised, predict |-> Returned(<<>>), feat_fault |-> FALSE, cal |-> off],
        [search |-> Returned(<<>>), predict |-> Returned(<<>>), feat_fault |-> FALSE,
         cal |-> off],
        [search |-> Returned(hoodies), predict |-> Returned(<<12, 0>>),
         feat_fault |-> FALSE, cal |-> on],
        [search |-> Returned(hoodies), predict |-> Returned(<<12, 12>>),
         feat_fault |-> FALSE, cal |-> on],
        [search |-> Returned(hoodies), predict |-> Returned(<<12, 0>>),
         feat_fault |-> FALSE, cal |-> off],
        [search |-> Returned(headings), predict |-> Returned(<<12, 0>>),
         feat_fault |-> FALSE, cal |-> on]}

\* the connection during one request: down, lost after the VAT read, up
ChatDb == {0, 5, DbReads}

SessionId(h, message) == <<"session", HashMod(h, message)>>

\* dict[key] = value on an insertion-ordered dict of <<key, value>> pairs
DictSet(d, key, value) ==
    IF \E i \in DOMAIN d : d[i][1] = key
    THEN [i \in DOMAIN d |-> IF d[i][1] = key THEN <<key, value>> ELSE d[i]]
    ELSE Append(d, <<key, value>>)

\* del dict[key]
DictDel(d, key) ==
    LET keep == {i \in DOMAIN d : d[i][1] # key}
        nth(k) == CHOOSE i \in keep : Cardinality({j \in keep : j < i}) = k - 1
    IN [k \in 1..Cardinality(keep) |-> d[nth(k)]]

\* sess.get('clarifying_question', {}).get('id')
StoredQuestionId(sess) ==
    IF "clarifying_question" \in DOMAIN sess
    THEN IF sess.clarifying_question.present THEN sess.clarifying_question.id ELSE None
    ELSE None

\* the for loop of answer_clarification (chat.py:136-140): the position of
\* the first session whose stored question has the id, 0 when there is none
FindSession(sessions, question_id) ==
    LET hits == {i \in DOMAIN sessions : StoredQuestionId(sessions[i][2]) = question_id}
    IN IF hits = {} THEN 0 ELSE CHOOSE i \in hits : \A j \in hits : i <= j

\* response.classification_meta = {...} (chat.py:98-102, 173-177)
WithClassificationMeta(payload, classification_result) ==
    [k \in DOMAIN payload \cup {"classification_meta"} |->
        IF k = "classification_meta"
        THEN [method |-> classification_result.method,
              confidence |-> classification_result.confidence,
              abstained |-> FALSE]
        ELSE payload[k]]

ErrorReply(op, code) ==
    [op |-> op, status |-> code, kind |-> "error", validated |-> FALSE]

TradeReply(op, payload, validated) ==
    [op |-> op, status |-> 200, kind |-> "trade", validated |-> validated,
     body |-> payload]

\* a reply together with a note of what the handler was called with: the
\* request body, or the code of its build_response call and whether the
\* store answered every read of it
Noting(r, key, value) ==
    [k \in DOMAIN r \cup {key} |-> IF k = key THEN value ELSE r[k]]

ClarificationReply(reason, question, params) ==
    [op |-> "resolve", status |-> 200, kind |-> "needs_clarification",
     validated |-> FALSE,
     body |-> [reason |-> reason, clarifying_question |-> question,
               query_parameters |-> params]]

\* the question id get_clarifying_question derives for a stored session
\* (pipeline.py:155)
DerivedQuestionId(h, sess) ==
    <<"cq", HashMod(h, sess.extracted_params.product_description)>>

Pending(h, sessions, question_id) ==
    \E i \in DOMAIN sessions : DerivedQuestionId(h, sessions[i][2]) = question_id

\* POST /chat/resolve, resolve_chat_message (chat.py:32-115).  env is the
\* outcome of the stages of its classify call, db the connection its builder
\* reads through; each is drawn where the handler comes to use it.
Resolve(message) ==
    LET extracted_params == Extracted[message]
        session_id == SessionId(hashOf, message)
    IN /\ served < MaxRequests
       /\ served' = served + 1
       /\ IF ~Truthy(extracted_params.product_description)
          THEN /\ reply' = ClarificationReply("no_product_description",
                               [present |-> TRUE, id |-> <<"cq_product">>,
                                options |-> <<>>],
                               extracted_params)
               /\ UNCHANGED <<clarification_sessions, abstained_log>>
          ELSE \E env \in ChatEnvs :
                 LET classification_result == Classify(env)
                     clarifying_question ==
                         GetClarifyingQuestion(hashOf,
                                               extracted_params.product_description,
                                               classification_result.top_candidates)
                     session == [extracted_params |-> extracted_params,
                                 classification_result |-> classification_result,
                                 message |-> message]
                     reranked == IF env.search.raised THEN Raised
                                 ELSE RerankWithMetadata(env.search.value, env.predict)
                 IN IF classification_result.abstained
                    THEN /\ clarification_sessions' =
                                DictSet(clarification_sessions, session_id, session)
                         /\ reply' = ClarificationReply(
                                         classification_result.abstention_reason,
                                         clarifying_question, extracted_params)
                         /\ abstained_log' = abstained_log \cup
                                {[message |-> message,
                                  session_id |-> session_id,
                                  reason |-> classification_result.abstention_reason,
                                  reranked |-> IF reranked.raised THEN <<>>
                                               ELSE reranked.value,
                                  question |-> clarifying_question,
                                  stored |-> session.classification_result.top_candidates]}
                    ELSE \E db \in ChatDb :
                           LET built == BuildResponse(RefStore, db,
                                            classification_result.hs_code,
                                            extracted_params.origin,
                                            extracted_params.destination)
                               response == WithClassificationMeta(built.value,
                                                                  classification_result)
                               outcome ==
                                   IF built.raised THEN ErrorReply("resolve", 500)
                                   ELSE IF ~ValidateTradeResponse(response)
                                   THEN ErrorReply("resolve", 500)
                                   ELSE TradeReply("resolve", response, TRUE)
                           IN /\ reply' = Noting(outcome, "build",
                                              [reachable |-> ~ReadFails(db, DbReads),
                                               hs_code |-> classification_result.hs_code])
                              /\ UNCHANGED <<clarification_sessions, abstained_log>>
       /\ UNCHANGED <<hashOf, answer_log, cls, points, embedding_model_bound, added>>

AnswerLogged(question_id, status) ==
    Append(answer_log,
           [at |-> served + 1,
            question_id |-> question_id,
            pending |-> Pending(hashOf, clarification_sessions, question_id),
            status |-> status])

\* POST /chat/answer, answer_clarification (chat.py:118-196)
Answer(question_id, selected_option) ==
    LET position == FindSession(clarification_sessions, question_id)
    IN /\ served < MaxRequests
       /\ served' = served + 1
       /\ IF position = 0
          THEN /\ reply' = ErrorReply("answer", 404)
               /\ answer_log' = AnswerLogged(question_id, 404)
               /\ UNCHANGED clarification_sessions
          ELSE \E db \in ChatDb :
                 LET session_id == clarification_sessions[position][1]
                     session == clarification_sessions[position][2]
                     classification_result ==
                         ClassifyWithClarification(
                             session.extracted_params.product_description,
                             selected_option,
                             session.classification_result.top_candidates)
                     built == BuildResponse(RefStore, db, classification_result.hs_code,
                                            session.extracted_params.origin,
                                            session.extracted_params.destination)
                     response == WithClassificationMeta(built.value,
                                                        classification_result)
                     outcome ==
                         IF classification_result.abstained
                         THEN ErrorReply("answer", 400)
                         ELSE IF built.raised THEN ErrorReply("answer", 500)
                         ELSE IF ~ValidateTradeResponse(response)
                         THEN ErrorReply("answer", 500)
                         ELSE TradeReply("answer", response, TRUE)
                     \* the session is deleted once the response is built,
                     \* before the gate
                     deleted == ~classification_result.abstained /\ ~built.raised
                 IN /\ reply' = outcome
                    /\ answer_log' = AnswerLogged(question_id, outcome.status)
                    /\ clarification_sessions' =
                           IF deleted THEN DictDel(clarification_sessions, session_id)
                           ELSE clarification_sessions
       /\ UNCHANGED <<hashOf, abstained_log, cls, points, embedding_model_bound, added>>

\* the bodies POST /deterministic-json is called with: any JSON object
DeterministicRequests ==
    {[hs_code |-> hs_61102000, origin |-> cc_PK, destination |-> cc_DE],
     [hs_code |-> hs_61102000, origin |-> cc_PK, destination |-> cc_XX],
     [hs_code |-> hs_61102000, origin |-> cc_PK, destination |-> None],
     [hs_code |-> <<"1","2","3">>, origin |-> cc_PK, destination |-> cc_DE]}

\* POST /deterministic-json, get_deterministic_json (deterministic.py:29-66)
Deterministic(request, db) ==
    LET built == BuildResponse(RefStore, db, request.hs_code, request.origin,
                               request.destination)
    IN /\ served < MaxRequests
       /\ served' = served + 1
       /\ reply' = Noting(IF built.raised THEN ErrorReply("deterministic", 500)
                          ELSE TradeReply("deterministic", built.value, FALSE),
                          "request", request)
       /\ UNCHANGED <<hashOf, clarification_sessions, abstained_log, answer_log, cls,
                      points, embedding_model_bound, added>>

\* the question ids a client may send: the ones resolve hands out or would
\* derive, and the fixed id of the missing-product question
QuestionIds ==
    {<<"cq", v % HashModulus>> : v \in HashVals} \cup {<<"cq_product">>}

AnswerOptions == {<<"a">>, <<"d">>}

Init ==
    /\ hashOf \in [HashedTexts -> HashVals]
    /\ clarification_sessions = <<>>
    /\ served = 0
    /\ reply = [op |-> "none"]
    /\ abstained_log = {}
    /\ answer_log = <<>>
    /\ IdleIndex
    /\ IdlePipeline

Next ==
    \/ \E message \in Messages : Resolve(message)
    \/ \E question_id \in QuestionIds, selected_option \in AnswerOptions :
          Answer(question_id, selected_option)
    \/ \E request \in DeterministicRequests, db \in ChatDb :
          Deterministic(request, db)

Spec == Init /\ [][Next]_vars

\* answer_clarification applied to a store that holds one session in the
\* form its lookup and its classify_with_clarification call read (chat.py:
\* 136-140, 148-152): the session resolve stores, together with the question
\* that was asked and the candidates it was built from.  resolve itself
\* stores neither, so Spec never gets past the lookup.
msg_xx == <<"i","m","p","o","r","t"," ","t","e","e"," ","f","r","o","m"," ",
            "P","K"," ","t","o"," ","X","X">>

AnswerInit ==
    /\ hashOf = [t \in HashedTexts |-> 3]
    /\ served = 0
    /\ reply = [op |-> "none"]
    /\ abstained_log = {}
    /\ answer_log = <<>>
    /\ IdleIndex
    /\ IdlePipeline
    /\ \E message \in {msg_pk, msg_pakistan, msg_xx}, c \in CandidateLists(MaxCands) :
          LET extracted_params == ExtractQueryParameters(message)
              top_candidates ==
                  RerankWithMetadata(c, Returned([i \in DOMAIN c |-> 12])).value
              classification_result ==
                  [CreateAbstainResult("low_confidence", 50, 0)
                      EXCEPT !.top_candidates = top_candidates]
          IN clarification_sessions =
                <<<<<<"session", 3>>,
                    [extracted_params |-> extracted_params,
                     classification_result |-> classification_result,
                     message |-> message,
                     clarifying_question |->
                         GetClarifyingQuestion(hashOf,
                                               extracted_params.product_description,
                                               top_candidates)]>>>>

AnswerNext ==
    \E question_id \in QuestionIds, selected_option \in AnswerOptions :
        Answer(question_id, selected_option)

SpecAnswer == AnswerInit /\ [][AnswerNext]_vars

\* The server over a shorter run in which every request that can be served
\* is eventually served: the most the server's scheduling gives, since it
\* has no action of its own.
MaxLiveRequests == 2

LiveNext == served < MaxLiveRequests /\ Next

SpecLive == Init /\ [][LiveNext]_vars /\ WF_vars(LiveNext)

----------------------------------------------------------------------------
(* The vector index, src/rag/retrieval.py.  points is the collection: a    *)
(* function from point id to payload, as Qdrant's upsert treats it.        *)

MaxDocs == 3
MaxAdded == 6

\* the 'metadata' of a document; the content only feeds the embedding
Payloads == {"doc1", "doc2", "doc3"}

DocumentLists ==
    UNION {[1..k -> Payloads] : k \in 0..MaxDocs}

\* client.upsert: a point whose id is in the collection replaces that point
Upsert(collection, new_points) ==
    [id \in DOMAIN collection \cup DOMAIN new_points |->
        IF id \in DOMAIN new_points THEN new_points[id] ELSE collection[id]]

\* VectorRetriever.add_documents (retrieval.py:64-102).  The name
\* embedding_model is bound nowhere in the module (only get_embedding_model
\* is imported), so the call ends in a NameError unless the process has set
\* it; upsert_ok is whether Qdrant takes the upsert.
AddDocuments(documents, upsert_ok) ==
    LET new_points == [id \in 0..(Len(documents) - 1) |-> documents[id + 1]]
    IN /\ added + Len(documents) <= MaxAdded
       /\ IF documents = <<>>
          THEN /\ reply' = [op |-> "add_documents", raised |-> FALSE]
               /\ UNCHANGED <<points, added>>
          ELSE IF ~embedding_model_bound \/ ~upsert_ok
          THEN /\ reply' = [op |-> "add_documents", raised |-> TRUE]
               /\ UNCHANGED <<points, added>>
          ELSE /\ points' = Upsert(points, new_points)
               /\ added' = added + Len(documents)
               /\ reply' = [op |-> "add_documents", raised |-> FALSE]
       /\ UNCHANGED <<hashOf, clarification_sessions, served, abstained_log,
                      answer_log, cls, embedding_model_bound>>

\* what the Qdrant client finds at one search: the collection, no collection
\* of that name (_ensure_collection_exists logs its failure and goes on,
\* retrieval.py:59-62), or no server
Backends == {"collection", "no_collection", "unreachable"}

\* VectorRetriever.search (retrieval.py:104-154).  client.search raises when
\* the collection or the server is missing, and search re-raises
\* (retrieval.py:152-154).  The results are the stored points, fewer than
\* top_k_retrieval in every state here; their order is Qdrant's and is not
\* modelled, so results is the set of hits.
Search(backend) ==
    /\ backend = "no_collection" => points = <<>>
    /\ reply' = IF backend = "collection"
                THEN [op |-> "search", backend |-> backend, raised |-> FALSE,
                      results |-> {[id |-> id, metadata |-> points[id]]
                                      : id \in DOMAIN points}]
                ELSE [op |-> "search", backend |-> backend, raised |-> TRUE,
                      results |-> {}]
    /\ UNCHANGED <<hashOf, clarification_sessions, served, abstained_log,
                   answer_log, cls, points, embedding_model_bound, added>>

IndexInit ==
    /\ hashOf = <<>>
    /\ clarification_sessions = <<>>
    /\ served = 0
    /\ reply = [op |-> "none"]
    /\ abstained_log = {}
    /\ answer_log = <<>>
    /\ IdlePipeline
    /\ points = <<>>
    /\ added = 0
    /\ embedding_model_bound \in BOOLEAN

IndexNext ==
    \/ \E documents \in DocumentLists, upsert_ok \in BOOLEAN :
          AddDocuments(documents, upsert_ok)
    \/ \E backend \in Backends : Search(backend)

SpecIndex == IndexInit /\ [][IndexNext]_vars

----------------------------------------------------------------------------
(* Claims about the chat router, checked under Spec.                       *)

\* C2 as claimed: of two answer requests that arrive one after the other for
\* the question of the same pending session, exactly one succeeds (200) and
\* the other receives 404.
C2_Original ==
    \A i \in 1..(Len(answer_log) - 1) :
        LET first == answer_log[i]
            second == answer_log[i + 1]
        IN (/\ second.at = first.at + 1
            /\ second.question_id = first.question_id
            /\ first.pending)
           => \/ first.status = 200 /\ second.status = 404
              \/ first.status = 404 /\ second.status = 200

\* C3 as claimed: an answer request that carries the question id of a session
\* that a resolve request stored finds that session: it does not end in 404.
C3_Original ==
    \A i \in DOMAIN answer_log :
        answer_log[i].pending => answer_log[i].status # 404

\* C4 as claimed: abstentions on different messages get distinct session ids
\* and, where a question is asked, distinct question ids.
C4_Original ==
    \A a, b \in abstained_log :
        a.message # b.message
        => /\ a.session_id # b.session_id
           /\ (a.question.present /\ b.question.present)
                  => a.question.id # b.question.id

----------------------------------------------------------------------------
(* Claims about the pipeline, checked under SpecPipeline.                  *)

ClassifyReturned == cls.op = "classify" /\ cls.returned
ClarificationReturned == cls.op = "classify_with_clarification" /\ cls.returned

\* C5: every result returned by classify and by classify_with_clarification
\* has a code (hs_code is not None) if and only if abstained is false.
C5_CodeIffNotAbstained ==
    (ClassifyReturned \/ ClarificationReturned) =>
        ((cls.result.hs_code # None) <=> ~cls.result.abstained)

\* a classify call that passed both thresholds and returned the top code
C5_Witness ==
    /\ ClassifyReturned
    /\ ~cls.result.abstained
    /\ cls.result.hs_code = hs_61102000

\* The decision of a classify call, read off the stage outcomes alone: the
\* call reaches it when retrieval returned candidates and neither the
\* cross-encoder nor the feature extraction raised.
DecisionReached(env) ==
    /\ ~env.search.raised
    /\ env.search.value # <<>>
    /\ ~env.predict.raised
    /\ ~env.feat_fault

\* the confidence at the decision: the trained model's probability, else 0.5
DecisionConfidence(env) ==
    IF env.cal.state = "trained" THEN env.cal.p ELSE 50

\* the position, in retrieval order, of the candidate ranked first: the
\* earliest one with the highest score
TopPosition(env) ==
    LET sc == env.predict.value
    IN CHOOSE i \in DOMAIN sc :
          /\ \A j \in DOMAIN sc : sc[j] <= sc[i]
          /\ \A j \in DOMAIN sc : j < i => sc[j] < sc[i]

\* the margin at the decision: highest score minus the highest of the others
DecisionMargin(env) ==
    LET sc == env.predict.value
        t == TopPosition(env)
        others == DOMAIN sc \ {t}
    IN IF others = {} THEN 0
       ELSE sc[t] - sc[CHOOSE j \in others : \A k \in others : sc[k] <= sc[j]]

BelowThresholds(env) ==
    DecisionConfidence(env) < 62 \/ DecisionMargin(env) < 7

\* C6 as claimed: at the decision the result is abstained if c < 0.62 or
\* m < 0.07, and otherwise it is not abstained and carries a code.
C6_Original ==
    (ClassifyReturned /\ DecisionReached(cls.env)) =>
        IF BelowThresholds(cls.env)
        THEN cls.result.abstained
        ELSE ~cls.result.abstained /\ cls.result.hs_code # None

\* C6 as amended: at the decision the result is abstained (low_confidence)
\* if c < 0.62 or m < 0.07; otherwise, when the top reranked candidate has a
\* code, the result is not abstained and carries that code, and when it has
\* none the result is abstained with reason no_hs_code_in_result.
C6_ThresholdDecision ==
    (ClassifyReturned /\ DecisionReached(cls.env)) =>
        LET top_code == cls.env.search.value[TopPosition(cls.env)].goods_code
        IN IF BelowThresholds(cls.env)
           THEN /\ cls.result.abstained
                /\ cls.result.abstention_reason = "low_confidence"
           ELSE IF top_code # None /\ top_code # <<>>
           THEN /\ ~cls.result.abstained
                /\ cls.result.hs_code = top_code
           ELSE /\ cls.result.abstained
                /\ cls.result.abstention_reason = "no_hs_code_in_result"

\* a call exactly on both thresholds (c = 0.62, m = 0.07) that classified
C6_Witness ==
    /\ ClassifyReturned
    /\ DecisionReached(cls.env)
    /\ DecisionConfidence(cls.env) = 62
    /\ DecisionMargin(cls.env) = 7
    /\ ~cls.result.abstained

\* The stage of a classify call that failed, read off the stage outcomes.
RetrievalRaised(env) == env.search.raised
RetrievalEmpty(env) == ~env.search.raised /\ env.search.value = <<>>
RerankRaised(env) ==
    ~env.search.raised /\ env.search.value # <<>> /\ env.predict.raised
FeaturesRaised(env) ==
    /\ ~env.search.raised
    /\ env.search.value # <<>>
    /\ ~env.predict.raised
    /\ env.feat_fault
CalibrationRaised(env) == DecisionReached(env) /\ env.cal.state = "error"

\* C7 as claimed: whatever stage fails, classify returns an abstained result
\* with a non-empty reason which is the fail-closed code of that stage:
\* no_candidates_retrieved for an empty retrieval, and classification_error
\* for an exception in retrieval, reranking, feature extraction or
\* calibration.
C7_Original ==
    ClassifyReturned =>
        /\ RetrievalEmpty(cls.env) =>
              /\ cls.result.abstained
              /\ cls.result.abstention_reason = "no_candidates_retrieved"
        /\ (\/ RetrievalRaised(cls.env)
            \/ RerankRaised(cls.env)
            \/ FeaturesRaised(cls.env)
            \/ CalibrationRaised(cls.env)) =>
              /\ cls.result.abstained
              /\ cls.result.abstention_reason = "classification_error"

\* C7 as amended: an empty retrieval gives no_candidates_retrieved and an
\* exception in retrieval, reranking or feature extraction gives
\* classification_error, each as an abstained result; an exception inside
\* the calibrator is absorbed there: the confidence becomes 0.5 and, below
\* the confidence threshold 0.62, the result is abstained with reason
\* low_confidence.
C7_FailClosed ==
    ClassifyReturned =>
        /\ RetrievalEmpty(cls.env) =>
              /\ cls.result.abstained
              /\ cls.result.abstention_reason = "no_candidates_retrieved"
        /\ (\/ RetrievalRaised(cls.env)
            \/ RerankRaised(cls.env)
            \/ FeaturesRaised(cls.env)) =>
              /\ cls.result.abstained
              /\ cls.result.abstention_reason = "classification_error"
        /\ CalibrationRaised(cls.env) =>
              /\ cls.result.abstained
              /\ cls.result.abstention_reason = "low_confidence"
              /\ cls.result.confidence = 50

\* the calibrator raised on candidates that are a clear margin apart
C7_Witness ==
    /\ ClassifyReturned
    /\ CalibrationRaised(cls.env)
    /\ DecisionMargin(cls.env) = 12
    /\ cls.result.abstention_reason = "low_confidence"

----------------------------------------------------------------------------
(* Claims about the chat router's abstentions and the validation gate,     *)
(* checked under Spec, and about the index, checked under SpecIndex.       *)

\* the candidates a clarifying question may offer: those of the first three
\* reranked candidates that carry a code
CodedTop(reranked) ==
    LET top3 == Take(reranked, 3)
    IN {i \in DOMAIN top3 : Truthy(top3[i].goods_code)}

\* C8 as claimed: a low-confidence abstention with at least two coded
\* candidates returns a clarifying question whose options are those
\* candidates, and the stored session holds the same candidates.
C8_Original ==
    \A a \in abstained_log :
        (a.reason = "low_confidence" /\ Cardinality(CodedTop(a.reranked)) >= 2)
        => /\ a.question.present
           /\ {a.question.options[k].hs_code : k \in DOMAIN a.question.options}
                  = {a.reranked[i].goods_code : i \in CodedTop(a.reranked)}
           /\ a.stored = a.reranked

C10_Original ==
    (reply.op \in {"deterministic", "resolve", "answer"} /\ reply.kind = "trade")
    => reply.validated

----------------------------------------------------------------------------
(* Claims about the deterministic builder, checked under SpecBuilder.      *)

BuildReturned == cls.op = "build_response" /\ cls.returned
BuildPayload == cls.result.value

\* the rows of measures_import selected for the call, in table order
SelectedImportRows ==
    LET Match(row) == /\ row.goods_code = cls.hs_code
                      /\ (row.origin_group = erga_omnes \/ row.origin_group = cls.origin)
    IN SelectSeq(cls.store.measures_import, Match)

\* C11 as claimed: every duty component of a returned payload is the stored
\* component of the selected row, value, type and unit each as stored (none
\* filled in), and every VAT rate is that of a stored row of the destination.
C11_Original ==
    (BuildReturned /\ ~cls.result.raised) =>
        /\ \A i \in DOMAIN BuildPayload.import_measures :
              \A k \in DOMAIN BuildPayload.import_measures[i].duty_components :
                 LET emitted == BuildPayload.import_measures[i].duty_components[k]
                     stored == SelectedImportRows[i].duty_components[k]
                 IN /\ stored.value = <<emitted.value>>
                    /\ stored.type = emitted.type
                    /\ stored.unit = emitted.unit
        /\ \A j \in DOMAIN BuildPayload.vat_rates :
              \E r \in DOMAIN cls.store.vat_rates :
                 /\ cls.store.vat_rates[r].country_code = cls.destination
                 /\ cls.store.vat_rates[r].standard_rate
                        = BuildPayload.vat_rates[j].standard_rate_percent

\* C12 as claimed: when the connection to the store is lost before or during
\* any read of a build, the build raises; it returns no payload.
C12_Original ==
    (BuildReturned /\ cls.db < DbReads) => cls.result.raised

\* C13 as claimed: with the store reachable, build returns a payload even
\* when the store holds no VAT row for the destination or no REACH mapping:
\* the fact is omitted, its completeness flag is false and an Unknown names
\* it.
C13_Original ==
    (BuildReturned /\ cls.db = DbReads) =>
        /\ ~cls.result.raised
        /\ (~\E r \in DOMAIN cls.store.vat_rates :
                cls.store.vat_rates[r].country_code = cls.destination)
           => /\ BuildPayload.vat_rates = <<>>
              /\ BuildPayload.completeness.all_required_vat_present = "False"
              /\ \E u \in DOMAIN BuildPayload.unknowns :
                    BuildPayload.unknowns[u] = "vat_rates"
        /\ (Take(cls.hs_code, 6) \notin cls.store.reach_map)
           => /\ BuildPayload.completeness.has_reach_mapping = "False"
              /\ \E u \in DOMAIN BuildPayload.unknowns :
                    BuildPayload.unknowns[u] = "reach_mapping"

\* the ad-valorem percentage of a measure: the value of its first component
\* of type ad_valorem in percent, << >> when it has none
AdValoremPercent(measure) ==
    LET comps == measure.duty_components
        hits == {k \in DOMAIN comps :
                    comps[k].type = ad_valorem /\ comps[k].unit = percent}
    IN IF hits = {} THEN <<>>
       ELSE <<comps[CHOOSE k \in hits : \A l \in hits : k <= l].value>>

\* C14: in every returned payload, if some import measure is of the origin's
\* group the resolution has preference_possible true, the chosen rate is the
\* ad-valorem percentage of a measure of that group and the fallback is that
\* of an ERGA OMNES measure when there is one (none otherwise); if no measure
\* is of the origin's group and one is ERGA OMNES, preference_possible is
\* false and the chosen rate is an ERGA OMNES measure's percentage.
C14_ResolutionPrefersOrigin ==
    (BuildReturned /\ ~cls.result.raised) =>
        LET measures == BuildPayload.import_measures
            resolution == BuildPayload.applicable_rate_resolution
            own == {i \in DOMAIN measures : measures[i].group = cls.origin}
            universal == {i \in DOMAIN measures : measures[i].group = erga_omnes}
        IN IF own # {}
           THEN /\ resolution.present
                /\ resolution.preference_possible
                /\ \E i \in own :
                      resolution.chosen_duty_rate_percent = AdValoremPercent(measures[i])
                /\ IF universal # {}
                   THEN \E j \in universal :
                           resolution.fallback_if_no_proof_percent
                               = AdValoremPercent(measures[j])
                   ELSE resolution.fallback_if_no_proof_percent = <<>>
           ELSE universal # {} =>
                /\ resolution.present
                /\ ~resolution.preference_possible
                /\ \E j \in universal :
                      resolution.chosen_duty_rate_percent = AdValoremPercent(measures[j])

\* measures {ERGA OMNES: 12.0 %} and {PK: 8.5 %} for origin PK resolved to
\* 8.5 % with the 12.0 % fallback
C14_Witness ==
    /\ BuildReturned
    /\ ~cls.result.raised
    /\ cls.origin = cc_PK
    /\ Len(BuildPayload.import_measures) = 2
    /\ BuildPayload.import_measures[1].group = erga_omnes
    /\ BuildPayload.import_measures[2].group = cc_PK
    /\ BuildPayload.applicable_rate_resolution.preference_possible
    /\ BuildPayload.applicable_rate_resolution.chosen_duty_rate_percent = <<850>>
    /\ BuildPayload.applicable_rate_resolution.fallback_if_no_proof_percent = <<1200>>

----------------------------------------------------------------------------
(* Claims about classify_with_clarification, checked under SpecPipeline.   *)

\* the selection is one character
SingleCharacter == Len(cls.selected_option) = 1

\* the 0-based position the letter of a one-character selection names
OptionPosition == Ord(LowerChar(cls.selected_option[1])) - Ord("a")

OptionInRange ==
    SingleCharacter /\ OptionPosition >= 0 /\ OptionPosition < Len(cls.top_candidates)

\* the selection names a candidate that carries a code
SelectionResolves ==
    OptionInRange /\ cls.top_candidates[OptionPosition + 1].goods_code # None

InvalidOptionSelected ==
    /\ cls.result.abstained
    /\ cls.result.abstention_reason = "invalid_option_selected"

\* C15 as claimed: every selection that does not resolve to a candidate with
\* a code (not a single letter, a letter out of range, a candidate without a
\* code) makes classify_with_clarification abstain with the reason
\* invalid_option_selected.
C15_Original ==
    (ClarificationReturned /\ ~SelectionResolves) => InvalidOptionSelected

\* C15, amended: every selection that does not resolve makes
\* classify_with_clarification abstain; the reason is
\* invalid_option_selected for a single character out of range,
\* no_hs_code_in_selected for a candidate without a code, and
\* clarification_error for a selection that is not a single character.  A
\* selection that resolves returns the candidate's code, not abstained.
C15_NonResolvingAbstains ==
    ClarificationReturned =>
        IF SelectionResolves
        THEN /\ ~cls.result.abstained
             /\ cls.result.hs_code = cls.top_candidates[OptionPosition + 1].goods_code
        ELSE /\ cls.result.abstained
             /\ cls.result.hs_code = None
             /\ cls.result.abstention_reason =
                   IF ~SingleCharacter THEN "clarification_error"
                   ELSE IF ~OptionInRange THEN "invalid_option_selected"
                   ELSE "no_hs_code_in_selected"

\* option d of three coded candidates was refused as invalid_option_selected
C15_Witness ==
    /\ ClarificationReturned
    /\ cls.selected_option = <<"d">>
    /\ Len(cls.top_candidates) = 3
    /\ \A i \in 1..3 : cls.top_candidates[i].goods_code # None
    /\ InvalidOptionSelected

----------------------------------------------------------------------------
(* Claims about the routers' status codes, checked under Spec.             *)

\* the constraints of DeterministicRequest (request.py:17-24): the required
\* fields are present, the code is 4 to 10 digits, origin and destination
\* are 2 to 3 characters
WellFormedRequest(request) ==
    /\ request.hs_code # None
    /\ request.origin # None
    /\ request.destination # None
    /\ Len(request.hs_code) \in 4..10
    /\ \A i \in DOMAIN request.hs_code : IsDigit(request.hs_code[i])
    /\ Len(request.origin) \in 2..3
    /\ Len(request.destination) \in 2..3

\* C16 as claimed: every deterministic-json request whose code is not 4 to
\* 10 digits, whose origin or destination is not 2 to 3 characters, or that
\* lacks a required field, is answered with status 422.
C16_Original ==
    (reply.op = "deterministic" /\ ~WellFormedRequest(reply.request))
        => reply.status = 422

\* C17 as claimed: every resolve request is answered with status 200, by a
\* needs-clarification response or, when the store answers every read and
\* holds the data of the classified code, by a deterministic response.
C17_Original ==
    reply.op = "resolve" =>
        IF "build" \in DOMAIN reply
        THEN (reply.build.reachable /\ reply.build.hs_code = hs_61102000)
                => (reply.status = 200 /\ reply.kind = "trade")
        ELSE /\ reply.status = 200
             /\ reply.kind = "needs_clarification"
             /\ DOMAIN reply.body = {"query_parameters", "reason", "clarifying_question"}

----------------------------------------------------------------------------
(* Claim about the lifetime of clarification sessions, checked under       *)
(* SpecLive.                                                               *)

SessionIds == {<<"session", v % HashModulus>> : v \in HashVals}

SessionStored(session_id) ==
    \E i \in DOMAIN clarification_sessions :
        clarification_sessions[i][1] = session_id

\* C18 as claimed: every stored clarification session is eventually removed
\* from the store, whether or not a client answers it.
C18_Original ==
    \A session_id \in SessionIds :
        SessionStored(session_id) ~> ~SessionStored(session_id)

----------------------------------------------------------------------------
(* Claim about search, checked under SpecIndex.                            *)

\* C19 as claimed: a search on an index that holds no point, or whose
\* collection or server is not available, returns an empty list and does
\* not raise.
C19_Original ==
    (reply.op = "search" /\ (points = <<>> \/ reply.backend # "collection"))
        => (~reply.raised /\ reply.results = {})

----------------------------------------------------------------------------
(* Claim about the validation gate, checked under SpecGate.                *)

ValidateReturned == cls.op = "validate" /\ cls.returned

\* C20: every payload whose import_measures collection is empty is refused
\* by validate_trade_response (it raises), whatever the other fields hold.
C20_EmptyMeasuresRefused ==
    (ValidateReturned /\ cls.payload.import_measures = <<>>) => cls.result.raised

\* a payload with no import measure and every other mandated collection
\* filled was refused
C20_Witness ==
    /\ ValidateReturned
    /\ cls.payload.import_measures = <<>>
    /\ cls.payload.goods_nomenclature_en # <<>>
    /\ cls.payload.vat_rates # <<>>
    /\ cls.payload.provenance # <<>>
    /\ cls.payload.vat_rates[1].standard_rate_percent = 1900
    /\ cls.result.raised

----------------------------------------------------------------------------
(* Claims about the margin, the clarifying question and the reranker,      *)
(* checked under SpecPipeline.                                             *)

\* C21 as claimed: every classify call that reaches the decision reports in
\* its result the margin of the decision: 0 for fewer than two reranked
\* candidates, otherwise the top rerank score minus the second.
C21_Original ==
    (ClassifyReturned /\ DecisionReached(cls.env)) =>
        cls.result.margin = DecisionMargin(cls.env)

\* C21, amended: the margin of the decision is 0 for fewer than two reranked
\* candidates and otherwise the top rerank score minus the second; the call
\* abstains with low_confidence exactly when that margin or the confidence is
\* below its threshold, and the result reports that margin, except that an
\* abstention with no_hs_code_in_result reports 0.
C21_MarginOfDecision ==
    (ClassifyReturned /\ DecisionReached(cls.env)) =>
        LET scores == cls.env.predict.value
            margin == IF Len(scores) < 2 THEN 0 ELSE DecisionMargin(cls.env)
            low == cls.result.abstained
                       /\ cls.result.abstention_reason = "low_confidence"
        IN /\ low <=> (DecisionConfidence(cls.env) < confidence_threshold
                           \/ margin < margin_threshold)
           /\ cls.result.margin =
                 IF cls.result.abstained
                       /\ cls.result.abstention_reason = "no_hs_code_in_result"
                 THEN 0 ELSE margin

\* a call with one candidate of score 0.12 reported the margin 0
C21_Witness ==
    /\ ClassifyReturned
    /\ DecisionReached(cls.env)
    /\ cls.env.predict.value = <<12>>
    /\ cls.result.margin = 0
    /\ cls.result.abstention_reason = "low_confidence"

----------------------------------------------------------------------------
(* Claim about the explainer, checked under SpecExplainer.                 *)

llm_timed_out ==
    <<"L","L","M"," ","c","a","l","l"," ","t","i","m","e","d"," ","o","u","t">>

\* C22 as claimed: when the LLM call times out, _call_llm returns the
\* message "LLM call timed out".
C22_Original ==
    (cls.op = "call_llm" /\ cls.returned /\ cls.outcome.kind = "timeout")
        => cls.result = llm_timed_out

----------------------------------------------------------------------------
(* Claim about the authentication middleware, checked under SpecAuth.      *)

\* the public endpoints: the root, and the health, documentation and listed
\* API routes (a path that is or extends one of them)
ListedPublic(path) ==
    \/ path = <<"/">>
    \/ \E i \in DOMAIN public_paths :
          public_paths[i] # <<"/">> /\ StartsWith(path, public_paths[i])

\* C23 as claimed: a request is let through without a valid token only when
\* its path is a public endpoint; to any other path a request without a
\* valid token is rejected with 401 and does not reach the handler.
C23_Original ==
    (/\ cls.op = "dispatch"
     /\ cls.returned
     /\ ~ListedPublic(cls.path)
     /\ ExtractToken(cls.credentials) # "valid")
        => (cls.result.status = 401 /\ ~cls.result.handler_reached)

QuestionReturned == cls.op = "get_clarifying_question" /\ cls.returned

\* the positions of the candidates that carry a code, and the k-th of them
CodedPositions ==
    {i \in DOMAIN cls.top_candidates : cls.top_candidates[i].goods_code # None}

NthCoded(k) ==
    CHOOSE i \in CodedPositions : Cardinality({j \in CodedPositions : j < i}) = k - 1

\* C24 as claimed: get_clarifying_question returns a question exactly when
\* at least two of the candidates carry a code; its options are then the
\* first three (or fewer) candidates that carry a code, in rank order, with
\* ids among a, b, c in ascending order.
C24_Original ==
    QuestionReturned =>
        IF Cardinality(CodedPositions) < 2
        THEN ~cls.result.present
        ELSE /\ cls.result.present
             /\ LET options == cls.result.options
                    shown == IF Cardinality(CodedPositions) < 3
                             THEN Cardinality(CodedPositions) ELSE 3
                IN /\ Len(options) = shown
                   /\ \A k \in 1..shown :
                         /\ options[k].hs_code = cls.top_candidates[NthCoded(k)].goods_code
                         /\ options[k].id \in {<<"a">>, <<"b">>, <<"c">>}
                   /\ \A k \in 1..(shown - 1) :
                         Ord(options[k].id[1]) < Ord(options[k + 1].id[1])

\* C25: for every option of a question built by get_clarifying_question over
\* a candidate list, classify_with_clarification called with the option's id
\* and that list returns a result that is not abstained and carries the code
\* the option shows.
C25_OptionResolvesToItsCode ==
    (ClarificationReturned /\ "option" \in DOMAIN cls) =>
        /\ ~cls.result.abstained
        /\ cls.result.hs_code = cls.option.hs_code

\* option c of a question over a list whose first candidate has no code
\* resolved to the third candidate's code
C25_Witness ==
    /\ ClarificationReturned
    /\ "option" \in DOMAIN cls
    /\ cls.option.id = <<"c">>
    /\ cls.top_candidates[1].goods_code = None
    /\ cls.result.hs_code = cls.top_candidates[3].goods_code
    /\ ~cls.result.abstained

FeaturesReturned == cls.op = "get_confidence_features" /\ cls.returned

\* C27 as claimed: the features of a non-empty reranked list are
\* [top1, top2, gap, mean, std] with gap = top1 - top2, and for a single
\* candidate top2 = 0 and gap = top1.
C27_Original ==
    (FeaturesReturned /\ cls.top_results # <<>>) =>
        LET features == cls.result.value
            n == Len(cls.top_results)
            top1 == cls.top_results[1].rerank_score
            top2 == IF n < 2 THEN 0 ELSE cls.top_results[2].rerank_score
        IN /\ ~cls.result.raised
           /\ Len(features) = 5
           /\ features[1] = [num |-> top1, den |-> 1]
           /\ features[2] = [num |-> top2, den |-> 1]
           /\ features[3] = [num |-> top1 - top2, den |-> 1]
           /\ features[4].den = n
           /\ features[4].num = SumSeq([i \in 1..n |-> cls.top_results[i].rerank_score])

RerankReturned == cls.op = "rerank_with_metadata" /\ cls.returned

\* the place in the retrieved list of the document at place r of the result
PlaceOf(r) ==
    CHOOSE i \in DOMAIN cls.documents : cls.documents[i].id = cls.result.value[r].id

\* C28: rerank_with_metadata returns the documents in descending order of
\* their score, cut to top_k_rerank, documents of equal score in retrieval
\* order and none of them dropped in favour of a later or lower one; an
\* empty list of documents gives an empty result.
C28_SortedStableTruncated ==
    (RerankReturned /\ (cls.documents = <<>> \/ ~cls.predict.raised)) =>
        LET out == cls.result.value
            n == Len(cls.documents)
            scores == cls.predict.value
        IN /\ ~cls.result.raised
           /\ Len(out) = IF n < top_k_rerank THEN n ELSE top_k_rerank
           /\ \A r \in DOMAIN out :
                 /\ \E i \in DOMAIN cls.documents : cls.documents[i].id = out[r].id
                 /\ out[r].rerank_score = scores[PlaceOf(r)]
                 /\ out[r].goods_code = cls.documents[PlaceOf(r)].goods_code
           /\ \A r, q \in DOMAIN out :
                 r < q => \/ out[r].rerank_score > out[q].rerank_score
                          \/ /\ out[r].rerank_score = out[q].rerank_score
                             /\ PlaceOf(r) < PlaceOf(q)
           /\ \A i \in DOMAIN cls.documents :
                 (\A r \in DOMAIN out : PlaceOf(r) # i) =>
                     \A r \in DOMAIN out :
                        \/ out[r].rerank_score > scores[i]
                        \/ out[r].rerank_score = scores[i] /\ PlaceOf(r) < i

\* six documents, the first two and the last with the same score: the cut
\* dropped the last one and kept the first two in retrieval order
C28_Witness ==
    /\ RerankReturned
    /\ ~cls.result.raised
    /\ cls.predict.value = <<5, 5, 12, 12, 12, 5>>
    /\ Len(cls.result.value) = top_k_rerank
    /\ cls.result.value[4].id = 1
    /\ cls.result.value[5].id = 2

----------------------------------------------------------------------------
(* Claim about the consumption of a session, checked under SpecAnswer.     *)

----------------------------------------------------------------------------
\* C29: for every code of length 4 to 10, of odd or even length, the walk
\* returns exactly the rows that exist for the code itself and for each of its
\* shorter prefixes of a nomenclature length (8, 6 and the 4-character
\* heading), most specific first.
WalkReturned == cls.op = "get_goods_nomenclature" /\ cls.returned

\* the code, then its proper prefixes of length 8, 6 and 4, longest first
HierarchyOf(hs_code) ==
    LET shorter(n) == IF Len(hs_code) > n THEN <<Take(hs_code, n)>> ELSE <<>>
    IN <<hs_code>> \o shorter(8) \o shorter(6) \o shorter(4)

C29_Original ==
    (WalkReturned /\ ~ReadFails(cls.db, 2)) =>
        cls.result = SelectSeq(HierarchyOf(cls.hs_code),
                               LAMBDA c : c \in cls.store.goods_nomenclature)

----------------------------------------------------------------------------
\* C30: in every payload returned by build, the unknowns list holds exactly
\* one entry for each completeness flag that is false (legal_base, vat_rates,
\* reach_mapping) and none for a flag that is true; in particular a code whose
\* 6-character prefix has no row in the REACH map has has_reach_mapping =
\* false and an Unknown whose field is reach_mapping.
PayloadReturned == BuildReturned /\ ~cls.result.raised

UnknownsNaming(field) ==
    Cardinality({i \in DOMAIN BuildPayload.unknowns :
                    BuildPayload.unknowns[i] = field})

FlagAgrees(flag, field) ==
    /\ flag = "False" => UnknownsNaming(field) = 1
    /\ flag = "True" => UnknownsNaming(field) = 0

C30_Original ==
    PayloadReturned =>
        /\ FlagAgrees(BuildPayload.completeness.all_measures_have_legal_base,
                      "legal_base")
        /\ FlagAgrees(BuildPayload.completeness.all_required_vat_present,
                      "vat_rates")
        /\ FlagAgrees(BuildPayload.completeness.has_reach_mapping,
                      "reach_mapping")
        /\ Take(cls.hs_code, 6) \notin cls.store.reach_map
              => /\ BuildPayload.completeness.has_reach_mapping = "False"
                 /\ UnknownsNaming("reach_mapping") = 1

====
